---------------------------- MODULE Spec2Model ----------------------------
(***************************************************************************)
(* State-machine model of the UnrealGDK schema generator:                  *)
(*   SpatialGDKEditorSchemaGenerator.cpp (the generator's global tables,   *)
(*   name validation, sublevel / net-cull-distance generation, load, reset *)
(*   and save of the schema database) and                                  *)
(*   CookAndGenerateSchemaCommandlet.cpp (the commandlet's Main).          *)
(* Strings are sequences of one-character strings, so that sanitization,   *)
(* formatting and comparison are computed and not assumed.                 *)
(***************************************************************************)
EXTENDS Integers, Sequences, FiniteSets, TLC

(***************************************************************************)
(* Bounds of the model.                                                    *)
(***************************************************************************)
\* Number of generation runs (commandlet or editor) in one behaviour.
MaxRuns == 2
\* Classes handed to one SpatialGDKGenerateSchemaForClasses call by the
\* commandlet's loop.  The code's value is 100
\* (CookAndGenerateSchemaCommandlet.cpp:125); the model scales it down so that
\* several batches occur with a handful of classes.
BatchSize == 2
\* Referenced classes that TryLoadClass does not give again in one commandlet
\* run.
MaxReloadFailures == 1
\* Dynamic subobject component sets generated per subobject class.
MaxDynamicSubobjects == 1
MaxCalls == 4
MaxTypeInfos == 3
MaxNameLen == 3
MaxExitCode == 2
MaxDescriptorHash == 1

(***************************************************************************)
(* Program constants.                                                      *)
(***************************************************************************)
STARTING_GENERATED_COMPONENT_ID == 10000
INVALID_COMPONENT_ID == 0
\* Worker_ComponentId is a 32-bit unsigned integer.  Every run of the model
\* hands out a few dozen ids from STARTING_GENERATED_COMPONENT_ID on, so the
\* counter stays far below 2^32 and its increment never wraps.

(***************************************************************************)
(* Strings.                                                                *)
(***************************************************************************)
Digits == <<"0", "1", "2", "3", "4", "5", "6", "7", "8", "9">>
DigitSet == {Digits[i] : i \in 1..10}
Letters == {"A", "B", "C", "D", "E", "F", "G", "H", "I", "J", "K", "L",
            "M", "N", "O", "P", "Q", "R", "S", "T", "U", "V", "W", "X",
            "Y", "Z",
            "a", "b", "c", "d", "e", "f", "g", "h", "i", "j", "k", "l",
            "m", "n", "o", "p", "q", "r", "s", "t", "u", "v", "w", "x",
            "y", "z"}

\* Character codes as FCString::Stricmp compares them: letters folded to lower
\* case, everything else by its ASCII code.
LowerCodes ==
    [c \in {" ", "(", ")", "-", ".", "/", "_"} \cup DigitSet \cup Letters |->
        CASE c = " " -> 32 [] c = "(" -> 40 [] c = ")" -> 41 []
          c = "-" -> 45 [] c = "." -> 46 [] c = "/" -> 47 [] c = "0" -> 48 []
          c = "1" -> 49 [] c = "2" -> 50 [] c = "3" -> 51 [] c = "4" -> 52 []
          c = "5" -> 53 [] c = "6" -> 54 [] c = "7" -> 55 [] c = "8" -> 56 []
          c = "9" -> 57 [] c = "_" -> 95 [] c \in {"A", "a"} -> 97 []
          c \in {"B", "b"} -> 98 [] c \in {"C", "c"} -> 99 []
          c \in {"D", "d"} -> 100 [] c \in {"E", "e"} -> 101 []
          c \in {"F", "f"} -> 102 [] c \in {"G", "g"} -> 103 []
          c \in {"H", "h"} -> 104 [] c \in {"I", "i"} -> 105 []
          c \in {"J", "j"} -> 106 [] c \in {"K", "k"} -> 107 []
          c \in {"L", "l"} -> 108 [] c \in {"M", "m"} -> 109 []
          c \in {"N", "n"} -> 110 [] c \in {"O", "o"} -> 111 []
          c \in {"P", "p"} -> 112 [] c \in {"Q", "q"} -> 113 []
          c \in {"R", "r"} -> 114 [] c \in {"S", "s"} -> 115 []
          c \in {"T", "t"} -> 116 [] c \in {"U", "u"} -> 117 []
          c \in {"V", "v"} -> 118 [] c \in {"W", "w"} -> 119 []
          c \in {"X", "x"} -> 120 [] c \in {"Y", "y"} -> 121 []
          c \in {"Z", "z"} -> 122]

LowerCode(c) == LowerCodes[c]

\* FString::operator== : the same comparison, so two strings that differ in
\* the case of letters only are equal.
StrEqual(a, b) ==
    \/ a = b
    \/ /\ Len(a) = Len(b)
       /\ \A i \in 1..Len(a) : LowerCode(a[i]) = LowerCode(b[i])

\* FString::operator< : case-insensitive lexicographic comparison.
RECURSIVE StrLess(_, _)
StrLess(a, b) ==
    IF b = <<>> THEN FALSE
    ELSE IF a = <<>> THEN TRUE
    ELSE IF LowerCode(Head(a)) # LowerCode(Head(b))
         THEN LowerCode(Head(a)) < LowerCode(Head(b))
    ELSE StrLess(Tail(a), Tail(b))

\* FString::Printf("%d") of a non-negative integer.
RECURSIVE IntToStr(_)
IntToStr(n) ==
    IF n < 10 THEN <<Digits[n + 1]>>
    ELSE IntToStr(n \div 10) \o <<Digits[(n % 10) + 1]>>

FCharIsDigit(c) == c \in DigitSet

\* Removes every character that is not a letter or a digit ("after removing
\* non-alphanumeric characters", generator log texts).
AlphanumericSanitization(s) == SelectSeq(s, LAMBDA c : c \in Letters \cup DigitSet)

\* UnrealNameToSchemaName(UnrealName, bWarnAboutRename): the flag only controls
\* a log line.
UnrealNameToSchemaName(UnrealName, bWarnAboutRename) == AlphanumericSanitization(UnrealName)

\* SchemaFieldName of a replicated or handover property, and
\* UnrealNameToSchemaComponentName of a subobject or component name.
SchemaFieldName(PropertyName) == AlphanumericSanitization(PropertyName)
UnrealNameToSchemaComponentName(Name) == AlphanumericSanitization(Name)

\* Index of the last '.' of a path (0 when there is none).
RECURSIVE LastDot(_, _)
LastDot(s, i) == IF i = 0 THEN 0 ELSE IF s[i] = "." THEN i ELSE LastDot(s, i - 1)

\* UClass::GetName of the class at a path, and FSoftObjectPath::GetAssetName:
\* the part after the last '.'.
GetAssetName(Path) == SubSeq(Path, LastDot(Path, Len(Path)) + 1, Len(Path))

(***************************************************************************)
(* Maps (TMap): functions with a finite domain.                            *)
(***************************************************************************)
EmptyMap == <<>>

\* TMap::Add, TMap::Contains and TMap::Find of a map keyed by FString: keys are
\* compared as FString::operator== compares them, and Add on a key that is
\* there replaces the entry, key and value.
MapAdd(m, k, v) ==
    [x \in {y \in DOMAIN m : ~StrEqual(y, k)} \cup {k} |-> IF x = k THEN v ELSE m[x]]
MapContains(m, k) == \E x \in DOMAIN m : StrEqual(x, k)
MapFind(m, k) == m[CHOOSE x \in DOMAIN m : StrEqual(x, k)]

\* The order in which a TMap keyed by FString holds its entries, as the
\* sequence of its keys: Add on a key that is there replaces the entry where
\* it stands, Add of a new key puts the entry behind the others.  The maps of
\* the generator are emptied but never lose single entries.
KeyOrderAdd(Keys, k) ==
    IF \E i \in 1..Len(Keys) : StrEqual(Keys[i], k)
    THEN [i \in 1..Len(Keys) |-> IF StrEqual(Keys[i], k) THEN k ELSE Keys[i]]
    ELSE Append(Keys, k)

\* TSet<FString>::Add: an element equal to the new one is replaced by it.
SetAdd(S, e) == {x \in S : ~StrEqual(x, e)} \cup {e}

\* TMap::Add of a map keyed by a number.
IdMapAdd(m, k, v) == [x \in (DOMAIN m) \cup {k} |-> IF x = k THEN v ELSE m[x]]

RangeOf(seq) == {seq[i] : i \in 1..Len(seq)}

(***************************************************************************)
(* The classes the reflection system can present (CreateUnrealTypeInfo,    *)
(* GetFlatRepData, GetFlatHandoverData, GetAllSubobjects, VisitAllObjects).*)
(* A class is identified by its path name; its TypeInfo is ClassInfo[path].*)
(***************************************************************************)
PathA == <<"/", "a", ".", "F">>
PathB == <<"/", "b", ".", "F", "-">>
PathC == <<"/", "a", ".", "F", "1">>
PathX == <<"/", "d", ".", "X">>
PathK == <<"/", "e", ".", "K">>

\* Classes with names the validation turns down; no run meets them.
PathDigit == <<"/", "g", ".", "1", "F">>
PathEmpty == <<"/", "i", ".", "-">>
PathHand == <<"/", "j", ".", "H">>
PathSub == <<"/", "l", ".", "S">>
PathProp == <<"/", "m", ".", "P">>
PathCross == <<"/", "n", ".", "L">>
PathCase == <<"/", "q", ".", "H", "h">>
\* A class of a loaded database only: its name is that of /e.K in lower case.
PathSmallK == <<"/", "x", ".", "k">>

AllClasses == {PathA, PathB, PathC, PathX, PathK}

ReplicatedPropertyGroups == <<"REP_MultiClient", "REP_SingleClient">>
SchemaComponentTypes == <<"SCHEMA_Data", "SCHEMA_OwnerOnly", "SCHEMA_Handover">>
SchemaComponentTypeSet == RangeOf(SchemaComponentTypes)

\* /a.F  : actor, property "h" in one group and "h-" in the other, one handover
\*         property, one static subobject of class /e.K.
\* /b.F- : actor whose class name sanitizes to the name of /a.F.
\* /a.F1 : actor whose class name equals the first suffixed form of "F", with
\*         no replicated property, two handover properties and one static
\*         subobject of class /e.K.
\* /d.X  : actor with two properties of one group that sanitize to one name.
\* /e.K  : a component class (not an actor).
\* /g.1F : actor whose class name starts with a digit.
\* /i.-  : actor whose class name is empty once sanitized.
\* /j.H  : actor with two handover properties that sanitize to one name.
\* /l.S  : actor with two subobjects whose names sanitize to one name.
\* /m.P  : actor with a replicated property whose name is empty once sanitized
\*         and a handover property whose name starts with a digit.
\* /n.L  : actor with a replicated property, a handover property and a
\*         subobject whose names sanitize to one name.
\* /q.Hh : actor with two replicated properties of one group whose names
\*         differ in case only.
\* Every other class is an actor with one replicated property.
ClassInfo(Path) ==
    CASE Path = PathA ->
           [IsActor |-> TRUE,
            RepData |-> [REP_MultiClient |-> << <<"h">> >>, REP_SingleClient |-> << <<"h", "-">> >>],
            Handover |-> << <<"t">> >>,
            Subobjects |-> << [Name |-> <<"k">>, Type |-> PathK] >>,
            NetCullDistanceSquared |-> 2]
      [] Path = PathB ->
           [IsActor |-> TRUE,
            RepData |-> [REP_MultiClient |-> << <<"h">> >>, REP_SingleClient |-> << >>],
            Handover |-> << >>,
            Subobjects |-> << >>,
            NetCullDistanceSquared |-> 2]
      [] Path = PathC ->
           [IsActor |-> TRUE,
            RepData |-> [REP_MultiClient |-> << >>, REP_SingleClient |-> << >>],
            Handover |-> << <<"t">>, <<"v">> >>,
            Subobjects |-> << [Name |-> <<"k">>, Type |-> PathK] >>,
            NetCullDistanceSquared |-> 1]
      [] Path = PathX ->
           [IsActor |-> TRUE,
            RepData |-> [REP_MultiClient |-> << <<"h">>, <<"h", "-">> >>, REP_SingleClient |-> << >>],
            Handover |-> << >>,
            Subobjects |-> << >>,
            NetCullDistanceSquared |-> 1]
      [] Path = PathK ->
           [IsActor |-> FALSE,
            RepData |-> [REP_MultiClient |-> << <<"v">> >>, REP_SingleClient |-> << >>],
            Handover |-> << >>,
            Subobjects |-> << >>,
            NetCullDistanceSquared |-> 0]
      [] Path \in {PathDigit, PathEmpty} ->
           [IsActor |-> TRUE,
            RepData |-> [REP_MultiClient |-> << <<"h">> >>, REP_SingleClient |-> << >>],
            Handover |-> << >>,
            Subobjects |-> << >>,
            NetCullDistanceSquared |-> 1]
      [] Path = PathHand ->
           [IsActor |-> TRUE,
            RepData |-> [REP_MultiClient |-> << >>, REP_SingleClient |-> << >>],
            Handover |-> << <<"t">>, <<"t", "-">> >>,
            Subobjects |-> << >>,
            NetCullDistanceSquared |-> 1]
      [] Path = PathSub ->
           [IsActor |-> TRUE,
            RepData |-> [REP_MultiClient |-> << >>, REP_SingleClient |-> << >>],
            Handover |-> << >>,
            Subobjects |-> << [Name |-> <<"k">>, Type |-> PathK],
                              [Name |-> <<"k", "-">>, Type |-> PathK] >>,
            NetCullDistanceSquared |-> 1]
      [] Path = PathProp ->
           [IsActor |-> TRUE,
            RepData |-> [REP_MultiClient |-> << >>, REP_SingleClient |-> << <<"-">> >>],
            Handover |-> << <<"1", "t">> >>,
            Subobjects |-> << >>,
            NetCullDistanceSquared |-> 1]
      [] Path = PathCase ->
           [IsActor |-> TRUE,
            RepData |-> [REP_MultiClient |-> << <<"h">>, <<"H">> >>, REP_SingleClient |-> << >>],
            Handover |-> << >>,
            Subobjects |-> << >>,
            NetCullDistanceSquared |-> 1]
      [] Path = PathCross ->
           [IsActor |-> TRUE,
            RepData |-> [REP_MultiClient |-> << <<"t">> >>, REP_SingleClient |-> << >>],
            Handover |-> << <<"t", "-">> >>,
            Subobjects |-> << [Name |-> <<"-", "t">>, Type |-> PathK] >>,
            NetCullDistanceSquared |-> 1]
      [] OTHER ->
           [IsActor |-> TRUE,
            RepData |-> [REP_MultiClient |-> << <<"h">> >>, REP_SingleClient |-> << >>],
            Handover |-> << >>,
            Subobjects |-> << >>,
            NetCullDistanceSquared |-> 1]

\* Classes IsSupportedClass turns down, one for each of its tests, and the
\* null class pointer.
\* /r.D      : a class that is pending kill.
\* /t.E      : an editor-only class.
\* /u.N      : a class flagged NotSpatialType.
\* /u.O      : a class with neither of the SpatialType flags.
\* /v.L      : a class whose layout is changing.
\* /s.SKEL_F : a transient class the blueprint compiler generated.
\* /N/x.W    : a class inside a directory that is never cooked.
NullClass == <<>>

UnsupportedClass ==
    [Killed |-> <<"/", "r", ".", "D">>,
     EditorOnly |-> <<"/", "t", ".", "E">>,
     NotSpatial |-> <<"/", "u", ".", "N">>,
     NoFlag |-> <<"/", "u", ".", "O">>,
     Layout |-> <<"/", "v", ".", "L">>,
     Skel |-> <<"/", "s", ".", "S", "K", "E", "L", "_", "F">>,
     NeverCook |-> <<"/", "N", "/", "x", ".", "W">>]

UnsupportedClasses == {UnsupportedClass[r] : r \in DOMAIN UnsupportedClass}

\* The UClass objects of the process (GetObjectsOfClass).
ObjectClasses == AllClasses \cup UnsupportedClasses

\* What the reflection system says about a class: IsPendingKill, IsEditorOnly,
\* the spatial class flags and CLASS_LayoutChanging.
ClassFlags(Class) ==
    [bPendingKill |-> Class = UnsupportedClass.Killed,
     bEditorOnly |-> Class = UnsupportedClass.EditorOnly,
     bSpatialType |-> Class \notin {UnsupportedClass.NotSpatial, UnsupportedClass.NoFlag},
     bNotSpatialType |-> Class = UnsupportedClass.NotSpatial,
     bLayoutChanging |-> Class = UnsupportedClass.Layout]

\* FString::StartsWith: an empty prefix starts no string; the search case is
\* IgnoreCase unless the caller asks for CaseSensitive.
StartsWith(s, Prefix, bCaseSensitive) ==
    /\ Len(Prefix) > 0
    /\ Len(Prefix) <= Len(s)
    /\ IF bCaseSensitive
       THEN SubSeq(s, 1, Len(Prefix)) = Prefix
       ELSE StrEqual(SubSeq(s, 1, Len(Prefix)), Prefix)

\* SKEL_, REINST_, TRASHCLASS_, HOTRELOADED_, PROTO_BP_, PLACEHOLDER-CLASS_
\* and ORPHANED_DATA_ONLY_.
TransientClassPrefixes ==
    {<<"S", "K", "E", "L", "_">>,
     <<"R", "E", "I", "N", "S", "T", "_">>,
     <<"T", "R", "A", "S", "H", "C", "L", "A", "S", "S", "_">>,
     <<"H", "O", "T", "R", "E", "L", "O", "A", "D", "E", "D", "_">>,
     <<"P", "R", "O", "T", "O", "_", "B", "P", "_">>,
     <<"P", "L", "A", "C", "E", "H", "O", "L", "D", "E", "R", "-", "C", "L", "A", "S", "S", "_">>,
     <<"O", "R", "P", "H", "A", "N", "E", "D", "_", "D", "A", "T", "A", "_", "O", "N", "L", "Y", "_">>}

\* UProjectPackagingSettings::DirectoriesToNeverCook of the project.
ProjectDirectoriesToNeverCook == {<<"/", "N">>}

\* IsSupportedClass(SupportedClass), given the project's DirectoriesToNeverCook.
IsSupportedClass(SupportedClass, DirectoriesToNeverCook) ==
    IF SupportedClass = NullClass \/ ClassFlags(SupportedClass).bPendingKill THEN FALSE
    ELSE IF ClassFlags(SupportedClass).bEditorOnly THEN FALSE
    ELSE IF ~ClassFlags(SupportedClass).bSpatialType THEN FALSE
    ELSE IF ClassFlags(SupportedClass).bLayoutChanging THEN FALSE
    ELSE IF \E Prefix \in TransientClassPrefixes :
               StartsWith(GetAssetName(SupportedClass), Prefix, TRUE)
         THEN FALSE
    ELSE IF \E Directory \in DirectoriesToNeverCook :
               StartsWith(SupportedClass, Directory, FALSE)
         THEN FALSE
    ELSE TRUE

\* GetAllSupportedClasses(AllClasses): the classes that pass IsSupportedClass.
GetAllSupportedClasses(Objects) ==
    {Class \in Objects : IsSupportedClass(Class, ProjectDirectoriesToNeverCook)}

\* The classes of the process a run can be given.
AllSupportedClasses == GetAllSupportedClasses(ObjectClasses)

\* The classes VisitAllObjects meets below a TypeInfo, in visiting order.
NestedClasses(Path) ==
    [i \in 1..Len(ClassInfo(Path).Subobjects) |-> ClassInfo(Path).Subobjects[i].Type]

(***************************************************************************)
(* Name validation.                                                        *)
(***************************************************************************)
\* A variant of CheckSchemaNameValidity without the test of the first character.
CheckSchemaNameValidity_EmptyOnly(Name) == Name # <<>>

CheckSchemaNameValidity(Name) ==
    IF Name = <<>> THEN FALSE
    ELSE IF FCharIsDigit(Name[1]) THEN FALSE
    ELSE TRUE

\* One of the three loops of CheckIdentifierNameValidity over the sanitized
\* names of one scope: an invalid name or a name already in the scope's map
\* clears the flag; other names are added to the map.
\* A variant of CheckScope in which a name that passes sets the flag to true.
RECURSIVE CheckScope_PassingNameSetsFlag(_, _, _, _)
CheckScope_PassingNameSetsFlag(Names, i, Seen, bOutSuccess) ==
    IF i > Len(Names) THEN bOutSuccess
    ELSE LET valid == CheckSchemaNameValidity(Names[i])
         IN IF \E n \in Seen : StrEqual(n, Names[i])
            THEN CheckScope_PassingNameSetsFlag(Names, i + 1, Seen, FALSE)
            ELSE CheckScope_PassingNameSetsFlag(Names, i + 1, Seen \cup {Names[i]}, valid)

RECURSIVE CheckScope(_, _, _, _)
CheckScope(Names, i, Seen, bOutSuccess) ==
    IF i > Len(Names) THEN bOutSuccess
    ELSE LET valid == CheckSchemaNameValidity(Names[i])
         IN IF \E n \in Seen : StrEqual(n, Names[i])
            THEN CheckScope(Names, i + 1, Seen, FALSE)
            ELSE CheckScope(Names, i + 1, Seen \cup {Names[i]}, bOutSuccess /\ valid)

RepScopeNames(TypeInfo, Group) ==
    [i \in 1..Len(ClassInfo(TypeInfo).RepData[Group]) |->
        SchemaFieldName(ClassInfo(TypeInfo).RepData[Group][i])]
HandoverScopeNames(TypeInfo) ==
    [i \in 1..Len(ClassInfo(TypeInfo).Handover) |->
        SchemaFieldName(ClassInfo(TypeInfo).Handover[i])]
SubobjectScopeNames(TypeInfo) ==
    [i \in 1..Len(ClassInfo(TypeInfo).Subobjects) |->
        UnrealNameToSchemaComponentName(ClassInfo(TypeInfo).Subobjects[i].Name)]

\* A variant of CheckRepGroups with one name map for all the groups.
RECURSIVE AllRepScopeNames(_, _)
AllRepScopeNames(TypeInfo, g) ==
    IF g > Len(ReplicatedPropertyGroups) THEN <<>>
    ELSE RepScopeNames(TypeInfo, ReplicatedPropertyGroups[g]) \o AllRepScopeNames(TypeInfo, g + 1)

CheckRepGroups_OneMapForAllGroups(TypeInfo, g, bOutSuccess) ==
    CheckScope(AllRepScopeNames(TypeInfo, g), 1, {}, bOutSuccess)

\* The loop over the replicated property groups, each with a name map of its
\* own (lines 118-144).
RECURSIVE CheckRepGroups(_, _, _)
CheckRepGroups(TypeInfo, g, bOutSuccess) ==
    IF g > Len(ReplicatedPropertyGroups) THEN bOutSuccess
    ELSE CheckRepGroups(TypeInfo, g + 1,
            CheckScope(RepScopeNames(TypeInfo, ReplicatedPropertyGroups[g]), 1, {}, bOutSuccess))

\* CheckIdentifierNameValidity(TypeInfo, bOutSuccess): the new value of the flag.
CheckIdentifierNameValidity(TypeInfo, bOutSuccess) ==
    LET afterRep == CheckRepGroups(TypeInfo, 1, bOutSuccess)
        afterHandover == CheckScope(HandoverScopeNames(TypeInfo), 1, {}, afterRep)
    IN CheckScope(SubobjectScopeNames(TypeInfo), 1, {}, afterHandover)

\* The entry AddPotentialNameCollision formats: "<ClassPath>(<GeneratedSchemaName>)".
CollisionEntry(ClassPath, GeneratedSchemaName) ==
    ClassPath \o <<"(">> \o GeneratedSchemaName \o <<")">>

\* TMap::FindOrAdd: an entry whose key equals DesiredSchemaName (as FString
\* compares) is kept under the key as it was first spelled; a new entry is
\* added only when there is none.
AddPotentialNameCollision(Collisions, DesiredSchemaName, ClassPath, GeneratedSchemaName) ==
    IF MapContains(Collisions, DesiredSchemaName)
    THEN LET Key == CHOOSE x \in DOMAIN Collisions : StrEqual(x, DesiredSchemaName)
         IN [Collisions EXCEPT
                ![Key] = SetAdd(@, CollisionEntry(ClassPath, GeneratedSchemaName))]
    ELSE MapAdd(Collisions, DesiredSchemaName,
                {CollisionEntry(ClassPath, GeneratedSchemaName)})

\* A variant of SuffixLoop that takes the desired name whether or not it is free.
SuffixLoop_TakesDesiredName(NameToPath, ClassName, SchemaName, Suffix) == SchemaName

\* A variant of SuffixLoop that appends the next suffix to the name it has
\* just tried instead of the sanitized class name.
RECURSIVE SuffixLoop_AppendsToTriedName(_, _, _, _)
SuffixLoop_AppendsToTriedName(NameToPath, ClassName, SchemaName, Suffix) ==
    IF MapContains(NameToPath, SchemaName)
    THEN SuffixLoop_AppendsToTriedName(NameToPath, ClassName,
                                       SchemaName \o IntToStr(Suffix + 1), Suffix + 1)
    ELSE SchemaName

\* The while loop of ValidateIdentifierNames that looks for a free name.
RECURSIVE SuffixLoop(_, _, _, _)
SuffixLoop(NameToPath, ClassName, SchemaName, Suffix) ==
    IF MapContains(NameToPath, SchemaName)
    THEN SuffixLoop(NameToPath, ClassName,
                    UnrealNameToSchemaName(ClassName, FALSE) \o IntToStr(Suffix + 1), Suffix + 1)
    ELSE SchemaName

\* The first loop of ValidateIdentifierNames from TypeInfos[i] on.  s is the
\* generator state, bSuccess the flag so far.
RECURSIVE ValidateClassNames(_, _, _, _)
ValidateClassNames(s, TypeInfos, i, bSuccess) ==
    IF i > Len(TypeInfos) THEN [state |-> s, bSuccess |-> bSuccess]
    ELSE
      LET ClassPath == TypeInfos[i]
          ClassName == GetAssetName(ClassPath)
          DesiredSchemaName == UnrealNameToSchemaName(ClassName, TRUE)
          ok == bSuccess /\ CheckSchemaNameValidity(DesiredSchemaName)
      IN IF MapContains(s.ClassPathToSchemaName, ClassPath)
         THEN ValidateClassNames(s, TypeInfos, i + 1, ok)
         ELSE
           LET SchemaName == SuffixLoop(s.SchemaNameToClassPath, ClassName, DesiredSchemaName, 0)
               c1 == IF ~StrEqual(DesiredSchemaName, SchemaName)
                     THEN AddPotentialNameCollision(s.PotentialSchemaNameCollisions,
                                                    DesiredSchemaName, ClassPath, SchemaName)
                     ELSE s.PotentialSchemaNameCollisions
               c2 == AddPotentialNameCollision(c1, SchemaName, ClassPath, SchemaName)
           IN ValidateClassNames(
                [s EXCEPT !.ClassPathToSchemaName = MapAdd(@, ClassPath, SchemaName),
                          !.SchemaNameToClassPath = MapAdd(@, SchemaName, ClassPath),
                          !.PotentialSchemaNameCollisions = c2],
                TypeInfos, i + 1, ok)

RECURSIVE CheckAllTypeInfos(_, _, _)
CheckAllTypeInfos(TypeInfos, i, bSuccess) ==
    IF i > Len(TypeInfos) THEN bSuccess
    ELSE CheckAllTypeInfos(TypeInfos, i + 1, CheckIdentifierNameValidity(TypeInfos[i], bSuccess))

\* A variant of ValidateIdentifierNames that fails when an entry of the
\* collision table names more than one class.
ValidateIdentifierNames_CollisionsFail(s, TypeInfos) ==
    LET named == ValidateClassNames(s, TypeInfos, 1, TRUE)
    IN [state |-> named.state,
        bSuccess |-> /\ CheckAllTypeInfos(TypeInfos, 1, named.bSuccess)
                     /\ \A Name \in DOMAIN named.state.PotentialSchemaNameCollisions :
                           Cardinality(named.state.PotentialSchemaNameCollisions[Name]) <= 1]

\* ValidateIdentifierNames(TypeInfos): the state with the name tables updated,
\* and the returned flag.  The loop over PotentialSchemaNameCollisions
\* (lines 242-250) only logs.
ValidateIdentifierNames(s, TypeInfos) ==
    LET named == ValidateClassNames(s, TypeInfos, 1, TRUE)
    IN [state |-> named.state,
        bSuccess |-> CheckAllTypeInfos(TypeInfos, 1, named.bSuccess)]

(***************************************************************************)
(* Sorting.                                                                *)
(***************************************************************************)
RECURSIVE InsertSorted(_, _)
InsertSorted(sorted, x) ==
    IF sorted = <<>> THEN <<x>>
    ELSE IF StrLess(x, Head(sorted)) THEN <<x>> \o sorted
    ELSE <<Head(sorted)>> \o InsertSorted(Tail(sorted), x)

\* TSet::Sort / TMap::KeySort with the predicate LHS < RHS on path names.
RECURSIVE SortByPathName(_)
SortByPathName(seq) ==
    IF seq = <<>> THEN <<>>
    ELSE InsertSorted(SortByPathName(SubSeq(seq, 1, Len(seq) - 1)), seq[Len(seq)])

\* The keys of a map whose keys are strings, in sorted order.
RECURSIVE SortedKeys(_)
SortedKeys(S) ==
    IF S = {} THEN <<>>
    ELSE LET least == CHOOSE x \in S : \A y \in S \ {x} : StrLess(x, y)
         IN <<least>> \o SortedKeys(S \ {least})

\* The order in which the engine's object array holds the classes, and the
\* orders in which a set of classes can be presented to the generator: as the
\* object array holds them, or in the reverse of it.
ObjectArrayOrder == <<PathK, PathX, PathA, PathC, PathB>>
Reverse(seq) == [i \in 1..Len(seq) |-> seq[Len(seq) + 1 - i]]
Orderings(S) ==
    {SelectSeq(ObjectArrayOrder, LAMBDA c : c \in S),
     SelectSeq(Reverse(ObjectArrayOrder), LAMBDA c : c \in S)}

\* Paths of directories: the sequence of their parts, "" being <<>>.
\* USpatialGDKEditorSettings::GetGeneratedSchemaOutputFolder.
GeneratedSchemaOutputFolder == <<"spatial", "schema", "unreal", "generated">>

\* FPaths::CollapseRelativeDirectories: every ".." takes the directory before it
\* away, "." parts are dropped; a ".." with no directory before it makes the
\* path invalid.  Acc is the path collapsed so far.
RECURSIVE CollapseRelativeDirectories(_, _)
CollapseRelativeDirectories(InPath, Acc) ==
    IF InPath = <<>> THEN [bValid |-> TRUE, Path |-> Acc]
    ELSE IF Head(InPath) = ".."
         THEN IF Acc = <<>> THEN [bValid |-> FALSE, Path |-> InPath]
              ELSE CollapseRelativeDirectories(Tail(InPath), SubSeq(Acc, 1, Len(Acc) - 1))
    ELSE IF Head(InPath) = "." THEN CollapseRelativeDirectories(Tail(InPath), Acc)
    ELSE CollapseRelativeDirectories(Tail(InPath), Append(Acc, Head(InPath)))

\* The class schema files the model keeps are those of the generated schema
\* folder; a call with another output path writes its files elsewhere.
WritesGeneratedFolder(SchemaPath) ==
    SchemaPath = CollapseRelativeDirectories(GeneratedSchemaOutputFolder, <<>>).Path

(***************************************************************************)
(* Component ids and the id generator (FComponentIdGenerator): Next()      *)
(* returns the counter and increments it, Peek() returns the counter.      *)
(***************************************************************************)
NoComponents == [ty \in SchemaComponentTypeSet |-> INVALID_COMPONENT_ID]

\* A variant of Next() that increments the counter before it reads it.
IdGeneratorNext_PreIncrement(NextId) == [Id |-> NextId + 1, NextId |-> NextId + 1]

IdGeneratorNext(NextId) == [Id |-> NextId, NextId |-> NextId + 1]

IdGeneratorPeek(NextId) == [Id |-> NextId, NextId |-> NextId]

\* The component types a class has state for: SCHEMA_Data and
\* SCHEMA_OwnerOnly for the replicated properties of the multi-client and of
\* the single-client group, SCHEMA_Handover for the handover properties.
ComponentTypesOf(Class) ==
    {ty \in SchemaComponentTypeSet :
        \/ ty = "SCHEMA_Data" /\ ClassInfo(Class).RepData["REP_MultiClient"] # <<>>
        \/ ty = "SCHEMA_OwnerOnly" /\ ClassInfo(Class).RepData["REP_SingleClient"] # <<>>
        \/ ty = "SCHEMA_Handover" /\ ClassInfo(Class).Handover # <<>>}

\* One id per component type the class has state for, in the order of the
\* enumeration: the stored id when the existing record has one, a newly
\* minted id otherwise.  A type the class has no state for keeps
\* INVALID_COMPONENT_ID.
\* A variant of AssignComponents that gives an id to the first component type
\* only and leaves the others without one.
AssignComponents_FirstTypeOnly(Present, Existing, t, NextId, Acc) ==
    LET ty == SchemaComponentTypes[1]
    IN IF ty \notin Present THEN [SchemaComponents |-> Acc, NextId |-> NextId]
       ELSE IF Existing[ty] # INVALID_COMPONENT_ID
       THEN [SchemaComponents |-> [Acc EXCEPT ![ty] = Existing[ty]], NextId |-> NextId]
       ELSE [SchemaComponents |-> [Acc EXCEPT ![ty] = NextId], NextId |-> NextId + 1]

RECURSIVE AssignComponents(_, _, _, _, _)
AssignComponents(Present, Existing, t, NextId, Acc) ==
    IF t > Len(SchemaComponentTypes) THEN [SchemaComponents |-> Acc, NextId |-> NextId]
    ELSE LET ty == SchemaComponentTypes[t]
         IN IF ty \notin Present
            THEN AssignComponents(Present, Existing, t + 1, NextId, Acc)
            ELSE IF Existing[ty] # INVALID_COMPONENT_ID
            THEN AssignComponents(Present, Existing, t + 1, NextId,
                                  [Acc EXCEPT ![ty] = Existing[ty]])
            ELSE LET minted == IdGeneratorNext(NextId)
                 IN AssignComponents(Present, Existing, t + 1, minted.NextId,
                                     [Acc EXCEPT ![ty] = minted.Id])

\* AddComponentId: the ids of a record enter the per-type id sets.
AddComponentIds(TypeToComponents, SchemaComponents) ==
    [ty \in DOMAIN TypeToComponents |->
        IF ty \in SchemaComponentTypeSet /\ SchemaComponents[ty] # INVALID_COMPONENT_ID
        THEN TypeToComponents[ty] \cup {SchemaComponents[ty]}
        ELSE TypeToComponents[ty]]

(***************************************************************************)
(* Schema generation for one class (SchemaGenerator.cpp).  g is the pair   *)
(* [state, NextId]: the generator's tables and the id generator's counter. *)
(***************************************************************************)
\* The static subobjects of an actor, from subobject i on: each slot keeps the
\* ids the existing actor record stores for it, or gets new ones.
RECURSIVE GenerateSubobjectSchemaForActor(_, _, _, _, _, _)
GenerateSubobjectSchemaForActor(Class, ExistingData, i, NextId, TypeToComponents, Acc) ==
    IF i > Len(ClassInfo(Class).Subobjects)
    THEN [SubobjectData |-> Acc, NextId |-> NextId, TypeToComponents |-> TypeToComponents]
    ELSE LET sub == ClassInfo(Class).Subobjects[i]
             old == IF i \in DOMAIN ExistingData THEN ExistingData[i].SchemaComponents ELSE NoComponents
             a == AssignComponents(ComponentTypesOf(sub.Type), old, 1, NextId, NoComponents)
         IN GenerateSubobjectSchemaForActor(Class, ExistingData, i + 1, a.NextId,
                AddComponentIds(TypeToComponents, a.SchemaComponents),
                IdMapAdd(Acc, i, [ClassPath |-> sub.Type, Name |-> sub.Name,
                                SchemaComponents |-> a.SchemaComponents]))

\* The net-cull-distance map keeps insertion order: a sequence of entries.
NCDContains(NCDMap, Key) == \E i \in 1..Len(NCDMap) : NCDMap[i].Key = Key

GenerateActorSchema(g, Class) ==
    LET s == g.state
        exists == MapContains(s.ActorClassPathToSchema, Class)
        old == IF exists THEN MapFind(s.ActorClassPathToSchema, Class).SchemaComponents
               ELSE NoComponents
        oldSub == IF exists THEN MapFind(s.ActorClassPathToSchema, Class).SubobjectData
                  ELSE EmptyMap
        a == AssignComponents(ComponentTypesOf(Class), old, 1, g.NextId, NoComponents)
        sub == GenerateSubobjectSchemaForActor(Class, oldSub, 1, a.NextId,
                  AddComponentIds(s.SchemaComponentTypeToComponents, a.SchemaComponents), EmptyMap)
        ncd == ClassInfo(Class).NetCullDistanceSquared
        record == [SchemaComponents |-> a.SchemaComponents,
                   GeneratedSchemaName |-> MapFind(s.ClassPathToSchemaName, Class),
                   SubobjectData |-> sub.SubobjectData]
    IN [state |-> [s EXCEPT !.ActorClassPathToSchema = MapAdd(@, Class, record),
                            !.KeyOrder.ActorClassPathToSchema = KeyOrderAdd(@, Class),
                            !.SchemaComponentTypeToComponents = sub.TypeToComponents,
                            !.NetCullDistanceToComponentId =
                                IF NCDContains(@, ncd) THEN @
                                ELSE Append(@, [Key |-> ncd, Value |-> INVALID_COMPONENT_ID]),
                            !.SchemaFiles = IF WritesGeneratedFolder(g.SchemaPath)
                                            THEN @ \cup {Class} ELSE @],
        NextId |-> sub.NextId,
        SchemaPath |-> g.SchemaPath]

\* The dynamic component sets of a subobject class, from set i on.
RECURSIVE GenerateDynamicSubobjects(_, _, _, _, _, _)
GenerateDynamicSubobjects(Class, ExistingSets, i, NextId, TypeToComponents, Acc) ==
    IF i > MaxDynamicSubobjects
    THEN [DynamicSubobjectComponents |-> Acc, NextId |-> NextId, TypeToComponents |-> TypeToComponents]
    ELSE LET old == IF i <= Len(ExistingSets) THEN ExistingSets[i].SchemaComponents ELSE NoComponents
             a == AssignComponents(ComponentTypesOf(Class), old, 1, NextId, NoComponents)
         IN GenerateDynamicSubobjects(Class, ExistingSets, i + 1, a.NextId,
                AddComponentIds(TypeToComponents, a.SchemaComponents),
                Append(Acc, [SchemaComponents |-> a.SchemaComponents]))

GenerateSubobjectSchema(g, Class) ==
    LET s == g.state
        oldSets == IF MapContains(s.SubobjectClassPathToSchema, Class)
                   THEN MapFind(s.SubobjectClassPathToSchema, Class).DynamicSubobjectComponents
                   ELSE <<>>
        d == GenerateDynamicSubobjects(Class, oldSets, 1, g.NextId,
                                       s.SchemaComponentTypeToComponents, <<>>)
        record == [GeneratedSchemaName |-> MapFind(s.ClassPathToSchemaName, Class),
                   DynamicSubobjectComponents |-> d.DynamicSubobjectComponents]
    IN [state |-> [s EXCEPT !.SubobjectClassPathToSchema = MapAdd(@, Class, record),
                            !.KeyOrder.SubobjectClassPathToSchema = KeyOrderAdd(@, Class),
                            !.SchemaComponentTypeToComponents = d.TypeToComponents,
                            !.SchemaFiles = IF WritesGeneratedFolder(g.SchemaPath)
                                            THEN @ \cup {Class} ELSE @],
        NextId |-> d.NextId,
        SchemaPath |-> g.SchemaPath]

GenerateCompleteSchemaFromClass(g, TypeInfo) ==
    IF ClassInfo(TypeInfo).IsActor
    THEN GenerateActorSchema(g, TypeInfo)
    ELSE GenerateSubobjectSchema(g, TypeInfo)

RECURSIVE GenerateSchemaFromClassesFrom(_, _, _)
GenerateSchemaFromClassesFrom(g, TypeInfos, i) ==
    IF i > Len(TypeInfos) THEN g
    ELSE GenerateSchemaFromClassesFrom(GenerateCompleteSchemaFromClass(g, TypeInfos[i]), TypeInfos, i + 1)

GenerateSchemaFromClasses(g, TypeInfos) == GenerateSchemaFromClassesFrom(g, TypeInfos, 1)

(***************************************************************************)
(* The generator's per-run name tables.                                    *)
(***************************************************************************)
\* A variant of ResolveClassPathToSchemaName that records the name under the
\* desired name only, and nothing when the two are equal.
ResolveClassPathToSchemaName_NoSelfCollision(s, ClassPath, SchemaName) ==
    IF SchemaName = <<>> THEN s
    ELSE LET DesiredSchemaName == UnrealNameToSchemaName(GetAssetName(ClassPath), FALSE)
             c1 == IF ~StrEqual(DesiredSchemaName, SchemaName)
                   THEN AddPotentialNameCollision(s.PotentialSchemaNameCollisions,
                                                  DesiredSchemaName, ClassPath, SchemaName)
                   ELSE s.PotentialSchemaNameCollisions
         IN [s EXCEPT !.ClassPathToSchemaName = MapAdd(@, ClassPath, SchemaName),
                      !.SchemaNameToClassPath = MapAdd(@, SchemaName, ClassPath),
                      !.PotentialSchemaNameCollisions = c1]

ResolveClassPathToSchemaName(s, ClassPath, SchemaName) ==
    IF SchemaName = <<>> THEN s
    ELSE LET DesiredSchemaName == UnrealNameToSchemaName(GetAssetName(ClassPath), FALSE)
             c1 == IF ~StrEqual(DesiredSchemaName, SchemaName)
                   THEN AddPotentialNameCollision(s.PotentialSchemaNameCollisions,
                                                  DesiredSchemaName, ClassPath, SchemaName)
                   ELSE s.PotentialSchemaNameCollisions
         IN [s EXCEPT !.ClassPathToSchemaName = MapAdd(@, ClassPath, SchemaName),
                      !.SchemaNameToClassPath = MapAdd(@, SchemaName, ClassPath),
                      !.PotentialSchemaNameCollisions =
                          AddPotentialNameCollision(c1, SchemaName, ClassPath, SchemaName)]

\* Replays the stored names of a record table, entry by entry.
RECURSIVE ReplayNames(_, _, _, _)
ReplayNames(s, Table, Keys, i) ==
    IF i > Len(Keys) THEN s
    ELSE ReplayNames(ResolveClassPathToSchemaName(s, Keys[i], Table[Keys[i]].GeneratedSchemaName),
                     Table, Keys, i + 1)

\* A variant of ResetUsedNames that clears the tables and replays nothing.
ResetUsedNames_ClearsOnly(s) ==
    [s EXCEPT !.ClassPathToSchemaName = EmptyMap,
              !.SchemaNameToClassPath = EmptyMap,
              !.PotentialSchemaNameCollisions = EmptyMap]

\* A variant of ResetUsedNames that replays the records over the tables the
\* earlier calls left.
ResetUsedNames_KeepsOldNames(s) ==
    LET actors == ReplayNames(s, s.ActorClassPathToSchema,
                              s.KeyOrder.ActorClassPathToSchema, 1)
    IN ReplayNames(actors, s.SubobjectClassPathToSchema,
                   s.KeyOrder.SubobjectClassPathToSchema, 1)

\* ResetUsedNames: the three name tables are emptied, then the records of
\* the actor table and those of the subobject table are replayed, each table
\* in the order in which it holds its entries.
ResetUsedNames(s) ==
    LET cleared == [s EXCEPT !.ClassPathToSchemaName = EmptyMap,
                             !.SchemaNameToClassPath = EmptyMap,
                             !.PotentialSchemaNameCollisions = EmptyMap]
        actors == ReplayNames(cleared, s.ActorClassPathToSchema,
                              s.KeyOrder.ActorClassPathToSchema, 1)
    IN ReplayNames(actors, s.SubobjectClassPathToSchema,
                   s.KeyOrder.SubobjectClassPathToSchema, 1)

(***************************************************************************)
(* SpatialGDKGenerateSchemaForClasses.                                     *)
(***************************************************************************)
\* A variant of VisitNested that adds a nested class whether or not it is in
\* SchemaGeneratedClasses.
RECURSIVE VisitNested_IgnoresGenerated(_, _, _)
VisitNested_IgnoresGenerated(c, Nested, j) ==
    IF j > Len(Nested) THEN c
    ELSE IF IsSupportedClass(Nested[j], ProjectDirectoriesToNeverCook)
         THEN VisitNested_IgnoresGenerated(
                 [Generated |-> c.Generated \cup {Nested[j]},
                  TypeInfos |-> Append(c.TypeInfos, Nested[j])], Nested, j + 1)
         ELSE VisitNested_IgnoresGenerated(c, Nested, j + 1)

\* The nested classes VisitAllObjects adds below one TypeInfo, from nested
\* class j on.  c is [Generated, TypeInfos].
RECURSIVE VisitNested(_, _, _)
VisitNested(c, Nested, j) ==
    IF j > Len(Nested) THEN c
    ELSE IF Nested[j] \notin c.Generated /\ IsSupportedClass(Nested[j], ProjectDirectoriesToNeverCook)
         THEN VisitNested([Generated |-> c.Generated \cup {Nested[j]},
                           TypeInfos |-> Append(c.TypeInfos, Nested[j])], Nested, j + 1)
         ELSE VisitNested(c, Nested, j + 1)

\* The loop that creates the TypeInfos, from class i of the sorted set on.
RECURSIVE CollectTypeInfos(_, _, _)
CollectTypeInfos(c, Classes, i) ==
    IF i > Len(Classes) THEN c
    ELSE IF Classes[i] \in c.Generated
         THEN CollectTypeInfos(c, Classes, i + 1)
         ELSE CollectTypeInfos(
                VisitNested([Generated |-> c.Generated \cup {Classes[i]},
                             TypeInfos |-> Append(c.TypeInfos, Classes[i])],
                            NestedClasses(Classes[i]), 1),
                Classes, i + 1)

\* A variant of TypeInfosOfCall that sorts the TypeInfos, nested classes
\* included, by ClassPath.
TypeInfosOfCall_SortsTypeInfos(Generated, Classes) ==
    LET c == CollectTypeInfos([Generated |-> Generated, TypeInfos |-> <<>>],
                              SortByPathName(Classes), 1)
    IN [Generated |-> c.Generated, TypeInfos |-> SortByPathName(c.TypeInfos)]

\* A variant of TypeInfosOfCall without the sort of the classes.
TypeInfosOfCall_Unsorted(Generated, Classes) ==
    CollectTypeInfos([Generated |-> Generated, TypeInfos |-> <<>>], Classes, 1)

\* The TypeInfos one call creates from the classes it is given (in the set's
\* iteration order) and the classes generated so far.
TypeInfosOfCall(Generated, Classes) ==
    CollectTypeInfos([Generated |-> Generated, TypeInfos |-> <<>>], SortByPathName(Classes), 1)

\* A variant of SpatialGDKGenerateSchemaForClasses that does not write the
\* generator's Peek() back to NextAvailableComponentId.
SpatialGDKGenerateSchemaForClasses_KeepsCounter(s, Classes, SchemaOutputPath) ==
    LET named == ResetUsedNames(s)
        collected == TypeInfosOfCall(s.SchemaGeneratedClasses, Classes)
        s1 == [named EXCEPT !.SchemaGeneratedClasses = collected.Generated]
        validated == ValidateIdentifierNames(s1, collected.TypeInfos)
        path == CollapseRelativeDirectories(
                    IF SchemaOutputPath = <<>> THEN GeneratedSchemaOutputFolder
                    ELSE SchemaOutputPath, <<>>)
    IN IF ~validated.bSuccess
       THEN [state |-> validated.state, result |-> FALSE]
       ELSE IF ~path.bValid
       THEN [state |-> validated.state, result |-> FALSE]
       ELSE LET g == GenerateSchemaFromClasses(
                        [state |-> validated.state, NextId |-> s.NextAvailableComponentId,
                         SchemaPath |-> path.Path],
                        collected.TypeInfos)
            IN [state |-> g.state, result |-> TRUE]

\* A variant of SpatialGDKGenerateSchemaForClasses that seeds the id generator
\* with the starting id instead of NextAvailableComponentId.
SpatialGDKGenerateSchemaForClasses_SeedsFromStart(s, Classes, SchemaOutputPath) ==
    LET named == ResetUsedNames(s)
        collected == TypeInfosOfCall(s.SchemaGeneratedClasses, Classes)
        s1 == [named EXCEPT !.SchemaGeneratedClasses = collected.Generated]
        validated == ValidateIdentifierNames(s1, collected.TypeInfos)
        path == CollapseRelativeDirectories(
                    IF SchemaOutputPath = <<>> THEN GeneratedSchemaOutputFolder
                    ELSE SchemaOutputPath, <<>>)
    IN IF ~validated.bSuccess
       THEN [state |-> validated.state, result |-> FALSE]
       ELSE IF ~path.bValid
       THEN [state |-> validated.state, result |-> FALSE]
       ELSE LET g == GenerateSchemaFromClasses(
                        [state |-> validated.state, NextId |-> STARTING_GENERATED_COMPONENT_ID,
                         SchemaPath |-> path.Path],
                        collected.TypeInfos)
            IN [state |-> [g.state EXCEPT !.NextAvailableComponentId = g.NextId],
                result |-> TRUE]

\* A variant of SpatialGDKGenerateSchemaForClasses that looks at the result
\* of the validation after the generation.
SpatialGDKGenerateSchemaForClasses_GeneratesBeforeCheck(s, Classes, SchemaOutputPath) ==
    LET named == ResetUsedNames(s)
        collected == TypeInfosOfCall(s.SchemaGeneratedClasses, Classes)
        s1 == [named EXCEPT !.SchemaGeneratedClasses = collected.Generated]
        validated == ValidateIdentifierNames(s1, collected.TypeInfos)
        path == CollapseRelativeDirectories(
                    IF SchemaOutputPath = <<>> THEN GeneratedSchemaOutputFolder
                    ELSE SchemaOutputPath, <<>>)
        g == GenerateSchemaFromClasses(
                [state |-> validated.state, NextId |-> s.NextAvailableComponentId,
                 SchemaPath |-> path.Path],
                collected.TypeInfos)
    IN [state |-> [g.state EXCEPT !.NextAvailableComponentId = g.NextId],
        result |-> validated.bSuccess]

\* SpatialGDKGenerateSchemaForClasses(Classes, SchemaOutputPath): the new state
\* and the result.  An empty SchemaOutputPath stands for the generated schema
\* folder; a path that does not collapse ends the call after the validation.
SpatialGDKGenerateSchemaForClasses(s, Classes, SchemaOutputPath) ==
    LET named == ResetUsedNames(s)
        collected == TypeInfosOfCall(s.SchemaGeneratedClasses, Classes)
        s1 == [named EXCEPT !.SchemaGeneratedClasses = collected.Generated]
        validated == ValidateIdentifierNames(s1, collected.TypeInfos)
        path == CollapseRelativeDirectories(
                    IF SchemaOutputPath = <<>> THEN GeneratedSchemaOutputFolder
                    ELSE SchemaOutputPath, <<>>)
    IN IF ~validated.bSuccess
       THEN [state |-> validated.state, result |-> FALSE]
       ELSE IF ~path.bValid
       THEN [state |-> validated.state, result |-> FALSE]
       ELSE LET g == GenerateSchemaFromClasses(
                        [state |-> validated.state, NextId |-> s.NextAvailableComponentId,
                         SchemaPath |-> path.Path],
                        collected.TypeInfos)
            IN [state |-> [g.state EXCEPT !.NextAvailableComponentId = g.NextId],
                result |-> TRUE]

(***************************************************************************)
(* Sublevels and net-cull-distance components.                             *)
(***************************************************************************)
LevelM == <<"/", "m">>
LevelN == <<"/", "n">>
LevelNameL == <<"L">>

\* What GetLevelNamesToPathsMap can return: the level names in GetKeys order,
\* each with its paths in MultiFind order.
LevelInputs ==
    { << [Name |-> LevelNameL, Paths |-> <<LevelM>>] >>,
      << [Name |-> LevelNameL, Paths |-> <<LevelN, LevelM>>] >> }

FindRef(m, k) == IF MapContains(m, k) THEN MapFind(m, k) ELSE INVALID_COMPONENT_ID

\* A variant of LevelComponent that mints an id whether or not one is stored.
LevelComponent_AlwaysMints(c, ComponentName, LevelPath) ==
    LET minted == IdGeneratorNext(c.NextId)
    IN [Levels |-> MapAdd(c.Levels, LevelPath, minted.Id),
        NextId |-> minted.NextId,
        Written |-> Append(c.Written, [Name |-> UnrealNameToSchemaComponentName(ComponentName),
                                       Id |-> minted.Id, LevelPath |-> LevelPath])]

\* One level path: the stored id, or a new one that is then stored.
\* c is [Levels, NextId, Written].
LevelComponent(c, ComponentName, LevelPath) ==
    LET stored == FindRef(c.Levels, LevelPath)
        minted == IdGeneratorNext(c.NextId)
        ComponentId == IF stored = 0 THEN minted.Id ELSE stored
    IN [Levels |-> IF stored = 0 THEN MapAdd(c.Levels, LevelPath, ComponentId) ELSE c.Levels,
        NextId |-> IF stored = 0 THEN minted.NextId ELSE c.NextId,
        Written |-> Append(c.Written, [Name |-> UnrealNameToSchemaComponentName(ComponentName),
                                       Id |-> ComponentId, LevelPath |-> LevelPath])]

\* A variant of NumberedLevelComponents that looks up and stores the id under
\* the numbered component name instead of the level path.
RECURSIVE NumberedLevelComponents_KeyedByComponentName(_, _, _, _)
NumberedLevelComponents_KeyedByComponentName(c, LevelName, LevelPaths, i) ==
    IF i >= Len(LevelPaths) THEN c
    ELSE NumberedLevelComponents_KeyedByComponentName(
            LevelComponent(c, LevelName \o <<"I", "n", "d">> \o IntToStr(i),
                           LevelName \o <<"I", "n", "d">> \o IntToStr(i)),
            LevelName, LevelPaths, i + 1)

RECURSIVE NumberedLevelComponents(_, _, _, _)
NumberedLevelComponents(c, LevelName, LevelPaths, i) ==
    IF i >= Len(LevelPaths) THEN c
    ELSE NumberedLevelComponents(
            LevelComponent(c, LevelName \o <<"I", "n", "d">> \o IntToStr(i), LevelPaths[i + 1]),
            LevelName, LevelPaths, i + 1)

RECURSIVE SublevelLoop(_, _, _)
SublevelLoop(c, LevelNamesToPaths, k) ==
    IF k > Len(LevelNamesToPaths) THEN c
    ELSE LET entry == LevelNamesToPaths[k]
         IN IF Len(entry.Paths) > 1
            THEN SublevelLoop(NumberedLevelComponents(c, entry.Name, entry.Paths, 0),
                              LevelNamesToPaths, k + 1)
            ELSE SublevelLoop(LevelComponent(c, entry.Name, entry.Paths[1]),
                              LevelNamesToPaths, k + 1)

SublevelResult(s, LevelNamesToPaths) ==
    SublevelLoop([Levels |-> s.LevelPathToComponentId, NextId |-> s.NextAvailableComponentId,
                  Written |-> <<>>], LevelNamesToPaths, 1)

\* A variant of GenerateSchemaForSublevels that does not write the generator's
\* Peek() back to NextAvailableComponentId.
GenerateSchemaForSublevels_KeepsCounter(s, LevelNamesToPaths) ==
    [s EXCEPT !.LevelPathToComponentId = SublevelResult(s, LevelNamesToPaths).Levels,
              !.SublevelsSchema = SublevelResult(s, LevelNamesToPaths).Written]

GenerateSchemaForSublevels(s, LevelNamesToPaths) ==
    LET r == SublevelResult(s, LevelNamesToPaths)
    IN [s EXCEPT !.LevelPathToComponentId = r.Levels,
                 !.NextAvailableComponentId = r.NextId,
                 !.SublevelsSchema = r.Written]

\* A variant of NCDLoop that mints an id for every distance, stored id or not.
RECURSIVE NCDLoop_AlwaysMints(_, _, _)
NCDLoop_AlwaysMints(NCDMap, i, NextId) ==
    IF i > Len(NCDMap) THEN [NCDMap |-> NCDMap, NextId |-> NextId]
    ELSE LET minted == IdGeneratorNext(NextId)
         IN NCDLoop_AlwaysMints([NCDMap EXCEPT ![i].Value = minted.Id], i + 1, minted.NextId)

RECURSIVE NCDLoop(_, _, _)
NCDLoop(NCDMap, i, NextId) ==
    IF i > Len(NCDMap) THEN [NCDMap |-> NCDMap, NextId |-> NextId]
    ELSE IF NCDMap[i].Value = 0
         THEN LET minted == IdGeneratorNext(NextId)
              IN NCDLoop([NCDMap EXCEPT ![i].Value = minted.Id], i + 1, minted.NextId)
         ELSE NCDLoop(NCDMap, i + 1, NextId)

\* A variant of GenerateSchemaForNCDs that does not write the counter back.
GenerateSchemaForNCDs_KeepsCounter(s) ==
    [s EXCEPT !.NetCullDistanceToComponentId =
                 NCDLoop(s.NetCullDistanceToComponentId, 1, s.NextAvailableComponentId).NCDMap]

GenerateSchemaForNCDs(s) ==
    LET r == NCDLoop(s.NetCullDistanceToComponentId, 1, s.NextAvailableComponentId)
    IN [s EXCEPT !.NetCullDistanceToComponentId = r.NCDMap,
                 !.NextAvailableComponentId = r.NextId]

(***************************************************************************)
(* Reset, load and save of the generator state.                            *)
(***************************************************************************)
\* The globals as their definitions initialise them when the process starts.
StaticInitState ==
    [SchemaGeneratedClasses |-> {},
     ActorClassPathToSchema |-> EmptyMap,
     SubobjectClassPathToSchema |-> EmptyMap,
     NextAvailableComponentId |-> STARTING_GENERATED_COMPONENT_ID,
     SchemaComponentTypeToComponents |-> EmptyMap,
     LevelPathToComponentId |-> EmptyMap,
     ClassPathToSchemaName |-> EmptyMap,
     SchemaNameToClassPath |-> EmptyMap,
     PotentialSchemaNameCollisions |-> EmptyMap,
     NetCullDistanceToComponentId |-> <<>>,
     KeyOrder |-> [ActorClassPathToSchema |-> <<>>, SubobjectClassPathToSchema |-> <<>>],
     SchemaFiles |-> {},
     SublevelsSchema |-> <<>>]

\* A variant of ResetSchemaGeneratorState that sets the counter to 0.
ResetSchemaGeneratorState_CounterZero(s) ==
    [s EXCEPT !.ActorClassPathToSchema = EmptyMap,
              !.SubobjectClassPathToSchema = EmptyMap,
              !.KeyOrder = [ActorClassPathToSchema |-> <<>>,
                            SubobjectClassPathToSchema |-> <<>>],
              !.SchemaComponentTypeToComponents = [ty \in SchemaComponentTypeSet |-> {}],
              !.LevelPathToComponentId = EmptyMap,
              !.NextAvailableComponentId = INVALID_COMPONENT_ID,
              !.SchemaGeneratedClasses = {},
              !.NetCullDistanceToComponentId = <<>>]

ResetSchemaGeneratorState(s) ==
    [s EXCEPT !.ActorClassPathToSchema = EmptyMap,
              !.SubobjectClassPathToSchema = EmptyMap,
              !.KeyOrder = [ActorClassPathToSchema |-> <<>>,
                            SubobjectClassPathToSchema |-> <<>>],
              !.SchemaComponentTypeToComponents = [ty \in SchemaComponentTypeSet |-> {}],
              !.LevelPathToComponentId = EmptyMap,
              !.NextAvailableComponentId = STARTING_GENERATED_COMPONENT_ID,
              !.SchemaGeneratedClasses = {},
              !.NetCullDistanceToComponentId = <<>>]

\* What RefreshSchemaFiles meets in the platform file: whether the directory
\* exists, whether DeleteDirectoryRecursively removes it and whether
\* CreateDirectoryTree creates it.  A folder that holds files exists.
FolderConditions == [bDirectoryExists : BOOLEAN, bDeleted : BOOLEAN, bCreated : BOOLEAN]

FolderConditionsOf(s) ==
    {fs \in FolderConditions :
        (s.SchemaFiles # {} \/ s.SublevelsSchema # <<>>) => fs.bDirectoryExists}

\* RefreshSchemaFiles on the generated schema folder: the new state and the
\* result.  A directory that cannot be deleted keeps its files.
RefreshSchemaFiles(s, fs) ==
    IF fs.bDirectoryExists /\ ~fs.bDeleted THEN [state |-> s, result |-> FALSE]
    ELSE IF ~fs.bCreated
         THEN [state |-> [s EXCEPT !.SchemaFiles = {}, !.SublevelsSchema = <<>>],
               result |-> FALSE]
    ELSE [state |-> [s EXCEPT !.SchemaFiles = {}, !.SublevelsSchema = <<>>],
          result |-> TRUE]

\* The result of RefreshSchemaFiles is not looked at.
ResetSchemaGeneratorStateAndCleanupFolders(s, fs) ==
    RefreshSchemaFiles(ResetSchemaGeneratorState(s), fs).state

\* The schema database file: absent, or the saved USchemaDatabase.
NoDatabase == [Valid |-> FALSE]

IsAssetReadOnly(Database, bIsReadOnly) == Database.Valid /\ bIsReadOnly

\* DeleteSchemaDatabase(PackagePath): the file afterwards and the result.
\* bDeleteFile is the result of DeleteFile.
DeleteSchemaDatabase(Database, bIsReadOnly, bDeleteFile) ==
    IF Database.Valid
    THEN IF IsAssetReadOnly(Database, bIsReadOnly)
         THEN [Database |-> Database, result |-> FALSE]
         ELSE IF ~bDeleteFile THEN [Database |-> Database, result |-> FALSE]
         ELSE [Database |-> NoDatabase, result |-> TRUE]
    ELSE [Database |-> Database, result |-> TRUE]

\* A variant of LoadGeneratorStateFromSchemaDatabase without the check for a
\* database whose counter is still the starting id.
LoadGeneratorStateFromSchemaDatabase_NoStaleCheck(s, Database, bIsReadOnly, bLoadable) ==
    IF IsAssetReadOnly(Database, bIsReadOnly) THEN [state |-> s, result |-> FALSE]
    ELSE IF ~Database.Valid THEN [state |-> s, result |-> FALSE]
    ELSE IF ~bLoadable THEN [state |-> s, result |-> FALSE]
    ELSE [state |->
            [s EXCEPT !.ActorClassPathToSchema = Database.ActorClassPathToSchema,
                      !.SubobjectClassPathToSchema = Database.SubobjectClassPathToSchema,
                      !.KeyOrder = Database.KeyOrder,
                      !.SchemaComponentTypeToComponents =
                          [ty \in SchemaComponentTypeSet |->
                              CASE ty = "SCHEMA_Data" -> Database.DataComponentIds
                                [] ty = "SCHEMA_OwnerOnly" -> Database.OwnerOnlyComponentIds
                                [] ty = "SCHEMA_Handover" -> Database.HandoverComponentIds],
                      !.LevelPathToComponentId = Database.LevelPathToComponentId,
                      !.NextAvailableComponentId = Database.NextAvailableComponentId,
                      !.NetCullDistanceToComponentId = Database.NetCullDistanceToComponentId],
          result |-> TRUE]

\* LoadGeneratorStateFromSchemaDatabase: the new state and the result.
\* bIsReadOnly is the file's attribute, bLoadable whether TryLoad finds the asset.
LoadGeneratorStateFromSchemaDatabase(s, Database, bIsReadOnly, bLoadable) ==
    IF IsAssetReadOnly(Database, bIsReadOnly) THEN [state |-> s, result |-> FALSE]
    ELSE IF ~Database.Valid THEN [state |-> s, result |-> FALSE]
    ELSE IF ~bLoadable THEN [state |-> s, result |-> FALSE]
    ELSE
      LET loaded ==
            [s EXCEPT !.ActorClassPathToSchema = Database.ActorClassPathToSchema,
                      !.SubobjectClassPathToSchema = Database.SubobjectClassPathToSchema,
                      !.KeyOrder = Database.KeyOrder,
                      !.SchemaComponentTypeToComponents =
                          [ty \in SchemaComponentTypeSet |->
                              CASE ty = "SCHEMA_Data" -> Database.DataComponentIds
                                [] ty = "SCHEMA_OwnerOnly" -> Database.OwnerOnlyComponentIds
                                [] ty = "SCHEMA_Handover" -> Database.HandoverComponentIds],
                      !.LevelPathToComponentId = Database.LevelPathToComponentId,
                      !.NextAvailableComponentId = Database.NextAvailableComponentId,
                      !.NetCullDistanceToComponentId = Database.NetCullDistanceToComponentId]
      IN IF Cardinality(DOMAIN loaded.ActorClassPathToSchema) > 0
            /\ loaded.NextAvailableComponentId = STARTING_GENERATED_COMPONENT_ID
         THEN [state |-> loaded, result |-> FALSE]
         ELSE [state |-> loaded, result |-> TRUE]

\* The (id, class path) pairs CreateComponentIdToClassPathMap adds, in order.
ComponentPairs(SchemaComponents, ClassPath) ==
    [t \in 1..Len(SchemaComponentTypes) |->
        [Id |-> SchemaComponents[SchemaComponentTypes[t]], ClassPath |-> ClassPath]]

RECURSIVE SubobjectDataPairs(_, _, _)
SubobjectDataPairs(SubobjectData, Keys, i) ==
    IF i > Len(Keys) THEN <<>>
    ELSE ComponentPairs(SubobjectData[Keys[i]].SchemaComponents, SubobjectData[Keys[i]].ClassPath)
            \o SubobjectDataPairs(SubobjectData, Keys, i + 1)

RECURSIVE ActorPairs(_, _, _)
ActorPairs(Actors, Keys, i) ==
    IF i > Len(Keys) THEN <<>>
    ELSE ComponentPairs(Actors[Keys[i]].SchemaComponents, Keys[i])
            \o SubobjectDataPairs(Actors[Keys[i]].SubobjectData,
                                  [k \in 1..Cardinality(DOMAIN Actors[Keys[i]].SubobjectData) |-> k], 1)
            \o ActorPairs(Actors, Keys, i + 1)

RECURSIVE DynamicPairs(_, _, _)
DynamicPairs(Sets, ClassPath, i) ==
    IF i > Len(Sets) THEN <<>>
    ELSE ComponentPairs(Sets[i].SchemaComponents, ClassPath) \o DynamicPairs(Sets, ClassPath, i + 1)

RECURSIVE SubobjectPairs(_, _, _)
SubobjectPairs(Subobjects, Keys, i) ==
    IF i > Len(Keys) THEN <<>>
    ELSE DynamicPairs(Subobjects[Keys[i]].DynamicSubobjectComponents, Keys[i], 1)
            \o SubobjectPairs(Subobjects, Keys, i + 1)

RECURSIVE AddPairs(_, _, _)
AddPairs(m, Pairs, i) ==
    IF i > Len(Pairs) THEN m
    ELSE AddPairs(IdMapAdd(m, Pairs[i].Id, Pairs[i].ClassPath), Pairs, i + 1)

\* A variant of CreateComponentIdToClassPathMap without the removal of the
\* entry of INVALID_COMPONENT_ID.
CreateComponentIdToClassPathMap_KeepsInvalidId(s) ==
    LET pairs == ActorPairs(s.ActorClassPathToSchema, s.KeyOrder.ActorClassPathToSchema, 1)
                 \o SubobjectPairs(s.SubobjectClassPathToSchema,
                                   s.KeyOrder.SubobjectClassPathToSchema, 1)
    IN AddPairs(EmptyMap, pairs, 1)

\* CreateComponentIdToClassPathMap: the entries of the actor table, then
\* those of the subobject table, each table in the order in which it holds
\* them; a later Add of an id replaces the earlier one, and the entry of
\* INVALID_COMPONENT_ID is removed at the end.
CreateComponentIdToClassPathMap(s) ==
    LET pairs == ActorPairs(s.ActorClassPathToSchema, s.KeyOrder.ActorClassPathToSchema, 1)
                 \o SubobjectPairs(s.SubobjectClassPathToSchema,
                                   s.KeyOrder.SubobjectClassPathToSchema, 1)
        all == AddPairs(EmptyMap, pairs, 1)
    IN [id \in (DOMAIN all) \ {INVALID_COMPONENT_ID} |-> all[id]]

\* Every component id a set of tables holds (generator state or saved
\* database), one entry per place that holds one: actor records with their
\* static subobjects, subobject records, sublevels, net-cull distances.
TableIds(t) ==
    LET pairs == ActorPairs(t.ActorClassPathToSchema, SortedKeys(DOMAIN t.ActorClassPathToSchema), 1)
                 \o SubobjectPairs(t.SubobjectClassPathToSchema,
                                   SortedKeys(DOMAIN t.SubobjectClassPathToSchema), 1)
        levels == SortedKeys(DOMAIN t.LevelPathToComponentId)
    IN [i \in 1..Len(pairs) |-> pairs[i].Id]
       \o [i \in 1..Len(levels) |-> t.LevelPathToComponentId[levels[i]]]
       \o [i \in 1..Len(t.NetCullDistanceToComponentId) |-> t.NetCullDistanceToComponentId[i].Value]

Occurrences(seq, id) == Cardinality({i \in 1..Len(seq) : seq[i] = id})

\* The ids handed out between two readings of TableIds: those that fill more
\* places afterwards than before.
HandedOut(before, after) ==
    {id \in RangeOf(after) \ {INVALID_COMPONENT_ID} :
        Occurrences(after, id) > Occurrences(before, id)}

\* The USchemaDatabase object SaveSchemaDatabase fills in and saves.
\* A variant of SchemaDatabaseOf that stores the counter before the run's
\* last id instead of the counter.
SchemaDatabaseOf_CounterOneBehind(s) ==
    [Valid |-> TRUE,
     NextAvailableComponentId |->
        IF s.NextAvailableComponentId > STARTING_GENERATED_COMPONENT_ID
        THEN s.NextAvailableComponentId - 1 ELSE s.NextAvailableComponentId,
     ActorClassPathToSchema |-> s.ActorClassPathToSchema,
     SubobjectClassPathToSchema |-> s.SubobjectClassPathToSchema,
     KeyOrder |-> s.KeyOrder,
     LevelPathToComponentId |-> s.LevelPathToComponentId,
     NetCullDistanceToComponentId |-> s.NetCullDistanceToComponentId,
     ComponentIdToClassPath |-> CreateComponentIdToClassPathMap(s),
     DataComponentIds |-> s.SchemaComponentTypeToComponents["SCHEMA_Data"],
     OwnerOnlyComponentIds |-> s.SchemaComponentTypeToComponents["SCHEMA_OwnerOnly"],
     HandoverComponentIds |-> s.SchemaComponentTypeToComponents["SCHEMA_Handover"],
     NetCullDistanceComponentIds |->
        [i \in 1..Len(s.NetCullDistanceToComponentId) |-> s.NetCullDistanceToComponentId[i].Value],
     LevelComponentIds |->
        LET keys == SortedKeys(DOMAIN s.LevelPathToComponentId)
        IN [i \in 1..Len(keys) |-> s.LevelPathToComponentId[keys[i]]],
     SchemaDescriptorHash |-> 0]

SchemaDatabaseOf(s) ==
    [Valid |-> TRUE,
     NextAvailableComponentId |-> s.NextAvailableComponentId,
     ActorClassPathToSchema |-> s.ActorClassPathToSchema,
     SubobjectClassPathToSchema |-> s.SubobjectClassPathToSchema,
     KeyOrder |-> s.KeyOrder,
     LevelPathToComponentId |-> s.LevelPathToComponentId,
     NetCullDistanceToComponentId |-> s.NetCullDistanceToComponentId,
     ComponentIdToClassPath |-> CreateComponentIdToClassPathMap(s),
     DataComponentIds |-> s.SchemaComponentTypeToComponents["SCHEMA_Data"],
     OwnerOnlyComponentIds |-> s.SchemaComponentTypeToComponents["SCHEMA_OwnerOnly"],
     HandoverComponentIds |-> s.SchemaComponentTypeToComponents["SCHEMA_Handover"],
     NetCullDistanceComponentIds |->
        [i \in 1..Len(s.NetCullDistanceToComponentId) |-> s.NetCullDistanceToComponentId[i].Value],
     LevelComponentIds |->
        LET keys == SortedKeys(DOMAIN s.LevelPathToComponentId)
        IN [i \in 1..Len(keys) |-> s.LevelPathToComponentId[keys[i]]],
     SchemaDescriptorHash |-> 0]

\* What the save meets when it reads the compiled schema.descriptor: whether
\* OpenRead gave a handle, whether Read filled the buffer, and CityHash32 of
\* the bytes.
DescriptorReads ==
    {[bOpened |-> TRUE, bRead |-> TRUE, Hash |-> h] : h \in 1..MaxDescriptorHash}
    \cup {[bOpened |-> TRUE, bRead |-> FALSE, Hash |-> 0],
          [bOpened |-> FALSE, bRead |-> FALSE, Hash |-> 0]}

\* The hash block of SaveSchemaDatabase (lines 490-520).
SchemaDescriptorHashOf(Descriptor) ==
    IF Descriptor.bOpened /\ Descriptor.bRead THEN Descriptor.Hash ELSE 0

\* The KeySort calls SaveSchemaDatabase starts with (lines 457-465): the
\* actor table and the subobject table hold their entries in the order of
\* their keys afterwards.  The level table is sorted too; its order is read
\* where LevelComponentIds is filled and nowhere else.
KeySort(s) ==
    [s EXCEPT !.KeyOrder =
        [ActorClassPathToSchema |-> SortByPathName(s.KeyOrder.ActorClassPathToSchema),
         SubobjectClassPathToSchema |-> SortByPathName(s.KeyOrder.SubobjectClassPathToSchema)]]

\* SaveSchemaDatabase: the file afterwards; bSavePackage is SavePackage's
\* result.  The database is filled from the sorted tables.
SaveSchemaDatabase(s, Database, Descriptor, bSavePackage) ==
    IF bSavePackage
    THEN [SchemaDatabaseOf(KeySort(s))
            EXCEPT !.SchemaDescriptorHash = SchemaDescriptorHashOf(Descriptor)]
    ELSE Database

\* A database written by a generator from before ids were kept across runs:
\* it holds an actor record and its counter is still the starting value.
LegacyDatabase ==
    [Valid |-> TRUE,
     NextAvailableComponentId |-> STARTING_GENERATED_COMPONENT_ID,
     ActorClassPathToSchema |->
        (PathB :> [SchemaComponents |-> [SCHEMA_Data |-> 10000, SCHEMA_OwnerOnly |-> 10001,
                                         SCHEMA_Handover |-> 10002],
                   GeneratedSchemaName |-> <<"F">>,
                   SubobjectData |-> EmptyMap]),
     SubobjectClassPathToSchema |-> EmptyMap,
     KeyOrder |-> [ActorClassPathToSchema |-> <<PathB>>, SubobjectClassPathToSchema |-> <<>>],
     LevelPathToComponentId |-> EmptyMap,
     NetCullDistanceToComponentId |-> <<>>,
     ComponentIdToClassPath |-> (10000 :> PathB @@ 10001 :> PathB @@ 10002 :> PathB),
     DataComponentIds |-> {10000},
     OwnerOnlyComponentIds |-> {10001},
     HandoverComponentIds |-> {10002},
     NetCullDistanceComponentIds |-> <<>>,
     LevelComponentIds |-> <<>>,
     SchemaDescriptorHash |-> 1]

(***************************************************************************)
(* State.                                                                  *)
(***************************************************************************)
VARIABLES
    \* the generator's globals (SpatialGDKEditorSchemaGenerator.cpp:43-60)
    SchemaGeneratedClasses, ActorClassPathToSchema, SubobjectClassPathToSchema,
    NextAvailableComponentId, SchemaComponentTypeToComponents, LevelPathToComponentId,
    ClassPathToSchemaName, SchemaNameToClassPath, PotentialSchemaNameCollisions,
    NetCullDistanceToComponentId,
    \* the order in which the tables ActorClassPathToSchema and
    \* SubobjectClassPathToSchema hold their entries
    KeyOrder,
    \* the class schema files in the generated schema folder, and the components
    \* of Sublevels/sublevels.schema
    SchemaFiles, SublevelsSchema,
    \* the schema database file
    Database,
    \* where the running entry point stands, and which entry point it is
    pc, runKind,
    \* FSpatialGDKEditor::bSchemaGeneratorRunning, and whether a GenerateSchema
    \* invocation was turned away since the run in flight began
    bSchemaGeneratorRunning, bInvocationRejected,
    \* whether the commandlet's FObjectListener is registered with GUObjectArray
    bListening,
    \* the commandlet's sorted ReferencedClasses not yet handed to a batch
    PendingClasses,
    \* history: runs started, the inputs of the current run, whether its state
    \* was loaded from the database, whether a class batch failed validation,
    \* how the last run ended
    runs, runClasses, runLevels, bLoaded, bValidationFailed, runResult,
    \* history: the classes each SpatialGDKGenerateSchemaForClasses call of the
    \* run was given, the TypeInfos it handed to validation and what it
    \* returned, and the steps of
    \* Main or SpatialGDKGenerateSchema the run has been through
    runCalls, runSteps,
    \* history: the ids handed out for the database in memory, whether an id was
    \* handed out twice, and the same facts about the run that saved the file
    issued, reissued, DatabaseHistory,
    \* a function of the generator called on its own, outside a run: its inputs,
    \* and the results of the calls made so far
    Call

genVars == <<SchemaGeneratedClasses, ActorClassPathToSchema, SubobjectClassPathToSchema,
             NextAvailableComponentId, SchemaComponentTypeToComponents, LevelPathToComponentId,
             ClassPathToSchemaName, SchemaNameToClassPath, PotentialSchemaNameCollisions,
             NetCullDistanceToComponentId, KeyOrder, SchemaFiles, SublevelsSchema>>

runVars == <<genVars, Database, pc, runKind, bSchemaGeneratorRunning, bInvocationRejected,
             bListening, PendingClasses, runs, runClasses, runLevels,
             bLoaded, bValidationFailed, runResult, runCalls, runSteps,
             issued, reissued, DatabaseHistory>>

vars == <<runVars, Call>>

\* The generator state as one record, and its assignment.
Cur ==
    [SchemaGeneratedClasses |-> SchemaGeneratedClasses,
     ActorClassPathToSchema |-> ActorClassPathToSchema,
     SubobjectClassPathToSchema |-> SubobjectClassPathToSchema,
     NextAvailableComponentId |-> NextAvailableComponentId,
     SchemaComponentTypeToComponents |-> SchemaComponentTypeToComponents,
     LevelPathToComponentId |-> LevelPathToComponentId,
     ClassPathToSchemaName |-> ClassPathToSchemaName,
     SchemaNameToClassPath |-> SchemaNameToClassPath,
     PotentialSchemaNameCollisions |-> PotentialSchemaNameCollisions,
     NetCullDistanceToComponentId |-> NetCullDistanceToComponentId,
     KeyOrder |-> KeyOrder,
     SchemaFiles |-> SchemaFiles,
     SublevelsSchema |-> SublevelsSchema]

Commit(s) ==
    /\ SchemaGeneratedClasses' = s.SchemaGeneratedClasses
    /\ ActorClassPathToSchema' = s.ActorClassPathToSchema
    /\ SubobjectClassPathToSchema' = s.SubobjectClassPathToSchema
    /\ NextAvailableComponentId' = s.NextAvailableComponentId
    /\ SchemaComponentTypeToComponents' = s.SchemaComponentTypeToComponents
    /\ LevelPathToComponentId' = s.LevelPathToComponentId
    /\ ClassPathToSchemaName' = s.ClassPathToSchemaName
    /\ SchemaNameToClassPath' = s.SchemaNameToClassPath
    /\ PotentialSchemaNameCollisions' = s.PotentialSchemaNameCollisions
    /\ NetCullDistanceToComponentId' = s.NetCullDistanceToComponentId
    /\ KeyOrder' = s.KeyOrder
    /\ SchemaFiles' = s.SchemaFiles
    /\ SublevelsSchema' = s.SublevelsSchema

\* History of one generation phase that takes the state from s to s2: the ids
\* it handed out, and whether one of them had been handed out before or was
\* handed out to two places at once.
Issue(s, s2) ==
    \E before \in {TableIds(s)}, after \in {TableIds(s2)} :
     \E handedOut \in {HandedOut(before, after)} :
       /\ issued' = issued \cup handedOut
       /\ reissued' = \/ reissued
                      \/ handedOut \cap issued # {}
                      \/ \E id \in handedOut :
                            Occurrences(after, id) > Occurrences(before, id) + 1

NoHistory == [Issued |-> {}, Classes |-> {}, Levels |-> <<>>, Kind |-> "none",
              bValidationFailed |-> FALSE, bLoaded |-> FALSE, bDescriptorRead |-> TRUE]

LegacyHistory == [NoHistory EXCEPT !.Issued = {10000, 10001, 10002}, !.Classes = {PathB},
                                   !.Kind = "legacy"]

InitRun ==
    /\ SchemaGeneratedClasses = StaticInitState.SchemaGeneratedClasses
    /\ ActorClassPathToSchema = StaticInitState.ActorClassPathToSchema
    /\ SubobjectClassPathToSchema = StaticInitState.SubobjectClassPathToSchema
    /\ NextAvailableComponentId = StaticInitState.NextAvailableComponentId
    /\ SchemaComponentTypeToComponents = StaticInitState.SchemaComponentTypeToComponents
    /\ LevelPathToComponentId = StaticInitState.LevelPathToComponentId
    /\ ClassPathToSchemaName = StaticInitState.ClassPathToSchemaName
    /\ SchemaNameToClassPath = StaticInitState.SchemaNameToClassPath
    /\ PotentialSchemaNameCollisions = StaticInitState.PotentialSchemaNameCollisions
    /\ NetCullDistanceToComponentId = StaticInitState.NetCullDistanceToComponentId
    /\ KeyOrder = StaticInitState.KeyOrder
    /\ SchemaFiles = StaticInitState.SchemaFiles
    /\ SublevelsSchema = StaticInitState.SublevelsSchema
    /\ \/ Database = NoDatabase /\ DatabaseHistory = NoHistory
       \/ Database = LegacyDatabase /\ DatabaseHistory = LegacyHistory
    /\ pc = "idle"
    /\ runKind = "none"
    /\ bSchemaGeneratorRunning = FALSE
    /\ bInvocationRejected = FALSE
    /\ bListening = FALSE
    /\ PendingClasses = <<>>
    /\ runs = 0
    /\ runClasses = {}
    /\ runLevels = <<>>
    /\ bLoaded = FALSE
    /\ bValidationFailed = FALSE
    /\ runResult = "none"
    /\ runCalls = <<>>
    /\ runSteps = <<>>
    /\ issued = {}
    /\ reissued = FALSE

NoCall == [Kind |-> "none"]

Init == InitRun /\ Call = NoCall

(***************************************************************************)
(* Actions.                                                                *)
(***************************************************************************)
\* The file attribute and the result of TryLoad a run can meet.
FileConditions ==
    IF Database.Valid
    THEN {[bIsReadOnly |-> FALSE, bLoadable |-> TRUE],
          [bIsReadOnly |-> FALSE, bLoadable |-> FALSE],
          [bIsReadOnly |-> TRUE, bLoadable |-> TRUE]}
    ELSE {[bIsReadOnly |-> FALSE, bLoadable |-> TRUE]}

\* FObjectListener::StartListening and StopListening: the listener is added
\* to and removed from the object-creation listeners of GUObjectArray.
StartListening == bListening' = TRUE

StopListening == bListening' = FALSE

\* A variant of LoadOrReset without the reset after a failed load.
LoadOrReset_WithoutReset(s, f, fs) ==
    LET l == LoadGeneratorStateFromSchemaDatabase(s, Database, f.bIsReadOnly, f.bLoadable)
    IN [state |-> l.state, bLoaded |-> l.result]

\* Load the database or, when that fails, reset (commandlet lines 89-92).
LoadOrReset(s, f, fs) ==
    LET l == LoadGeneratorStateFromSchemaDatabase(s, Database, f.bIsReadOnly, f.bLoadable)
    IN [state |-> IF l.result THEN l.state
                  ELSE ResetSchemaGeneratorStateAndCleanupFolders(l.state, fs),
        bLoaded |-> l.result]

StartRunHistory(kind) ==
    /\ runs' = runs + 1
    /\ runKind' = kind
    /\ runClasses' = {}
    /\ runLevels' = <<>>
    /\ bValidationFailed' = FALSE
    /\ PendingClasses' = <<>>
    /\ runCalls' = <<>>
    /\ runSteps' = <<>>
    /\ reissued' = FALSE
    /\ UNCHANGED <<Database, DatabaseHistory>>

\* A variant of CommandletBegin that refreshes the schema folder before it
\* looks at the read-only attribute.
CommandletBegin_RefreshesBeforeCheck ==
    /\ pc = "idle"
    /\ UNCHANGED <<Call, bSchemaGeneratorRunning, bInvocationRejected>>
    /\ runs < MaxRuns
    /\ StartRunHistory("commandlet")
    /\ StartListening
    /\ \E f \in FileConditions :
         \E s0 \in {[StaticInitState EXCEPT !.SchemaFiles = SchemaFiles,
                                            !.SublevelsSchema = SublevelsSchema]} :
          \E fs1 \in FolderConditionsOf(s0) :
           \E s1 \in {RefreshSchemaFiles(s0, fs1).state} :
            \E fs2 \in FolderConditionsOf(s1) :
             \E r \in {LoadOrReset(s1, f, fs2)} :
            IF IsAssetReadOnly(Database, f.bIsReadOnly)
            THEN /\ Commit(s1)
                 /\ pc' = "idle"
                 /\ runResult' = "readonly"
                 /\ bLoaded' = FALSE
                 /\ issued' = {}
            ELSE /\ Commit(r.state)
                 /\ pc' = "cook"
                 /\ runResult' = "running"
                 /\ bLoaded' = r.bLoaded
                 /\ issued' = IF r.bLoaded THEN DatabaseHistory.Issued ELSE {}

\* UCookAndGenerateSchemaCommandlet::Main up to the cook (lines 64-92).  The
\* commandlet is a process of its own: the globals start as initialised.
CommandletBegin ==
    /\ pc = "idle"
    /\ UNCHANGED <<Call, bSchemaGeneratorRunning, bInvocationRejected>>
    /\ runs < MaxRuns
    /\ StartRunHistory("commandlet")
    /\ StartListening
    /\ \E f \in FileConditions :
         \E s0 \in {[StaticInitState EXCEPT !.SchemaFiles = SchemaFiles,
                                            !.SublevelsSchema = SublevelsSchema]} :
          \E fs1 \in FolderConditionsOf(s0) :
           \E s1 \in {RefreshSchemaFiles(s0, fs1).state} :
            \E fs2 \in FolderConditionsOf(s1) :
             \E r \in {LoadOrReset(s1, f, fs2)} :
            IF IsAssetReadOnly(Database, f.bIsReadOnly)
            THEN /\ Commit(s0)
                 /\ pc' = "idle"
                 /\ runResult' = "readonly"
                 /\ bLoaded' = FALSE
                 /\ issued' = {}
            ELSE /\ Commit(r.state)
                 /\ pc' = "cook"
                 /\ runResult' = "running"
                 /\ bLoaded' = r.bLoaded
                 /\ issued' = IF r.bLoaded THEN DatabaseHistory.Issued ELSE {}

\* The asset path names are FNames.  An FName made of a string splits off a
\* trailing number: the digits at the end when an underscore stands before
\* them, something stands before the underscore or the underscore starts the
\* string, there are at most ten of them, a number of several digits does not
\* start with 0, and the value is below MAX_int32.
MAX_int32 == 2147483647

RECURSIVE TrailingDigits(_, _)
TrailingDigits(s, i) ==
    IF i = 0 \/ ~FCharIsDigit(s[i]) THEN 0 ELSE 1 + TrailingDigits(s, i - 1)

RECURSIVE Atoi64(_)
Atoi64(s) ==
    IF s = <<>> THEN 0
    ELSE 10 * Atoi64(SubSeq(s, 1, Len(s) - 1))
         + (CHOOSE n \in 0..9 : Digits[n + 1] = s[Len(s)])

HasNameNumber(s) ==
    LET d == TrailingDigits(s, Len(s))
    IN /\ d > 0
       /\ d < Len(s)
       /\ s[Len(s) - d] = "_"
       /\ d <= 10
       /\ d = 1 \/ s[Len(s) - d + 1] # "0"
       /\ Atoi64(SubSeq(s, Len(s) - d + 1, Len(s))) < MAX_int32

\* The name without its number, and the number as the FName holds it: 0 when
\* there is none, and the value plus one otherwise.
FNamePlainName(s) ==
    IF HasNameNumber(s) THEN SubSeq(s, 1, Len(s) - TrailingDigits(s, Len(s)) - 1) ELSE s

FNameNumber(s) ==
    IF HasNameNumber(s)
    THEN Atoi64(SubSeq(s, Len(s) - TrailingDigits(s, Len(s)) + 1, Len(s))) + 1
    ELSE 0

\* FNameLexicalLess: FName::Compare(A, B) < 0.  Names that are equal but for
\* the case of letters are ordered by their numbers, other names as strings
\* without regard to case.
FNameLexicalLess(A, B) ==
    IF StrEqual(FNamePlainName(A), FNamePlainName(B))
    THEN FNameNumber(A) < FNameNumber(B)
    ELSE StrLess(FNamePlainName(A), FNamePlainName(B))

RECURSIVE InsertFNameSorted(_, _)
InsertFNameSorted(sorted, x) ==
    IF sorted = <<>> THEN <<x>>
    ELSE IF FNameLexicalLess(x, Head(sorted)) THEN <<x>> \o sorted
    ELSE <<Head(sorted)>> \o InsertFNameSorted(Tail(sorted), x)

\* ReferencedClasses.Sort with FNameLexicalLess on the asset path names
\* (commandlet lines 118-120).
RECURSIVE SortFNameLexical(_)
SortFNameLexical(seq) ==
    IF seq = <<>> THEN <<>>
    ELSE InsertFNameSorted(SortFNameLexical(SubSeq(seq, 1, Len(seq) - 1)), seq[Len(seq)])

\* The cook: the listener has collected ReferencedClasses, which are sorted
\* (lines 94-120).  Which of them TryLoadClass gives again in the loop that
\* follows is settled here; runClasses holds those.
CommandletCook ==
    /\ pc = "cook"
    /\ UNCHANGED <<Call, bSchemaGeneratorRunning, bInvocationRejected>>
    /\ StopListening
    /\ \E ReferencedClasses \in SUBSET AllSupportedClasses :
         \E order \in Orderings(ReferencedClasses), Loadable \in SUBSET ReferencedClasses :
            /\ Cardinality(ReferencedClasses \ Loadable) <= MaxReloadFailures
            /\ PendingClasses' = SortFNameLexical(order)
            /\ runClasses' = Loadable
    /\ pc' = "batch"
    /\ UNCHANGED <<genVars, Database, DatabaseHistory, runKind, runs, runLevels, bLoaded,
                   bValidationFailed, runResult, runCalls, runSteps, issued, reissued>>

\* A variant of BatchIsFull that lets one more class in.
BatchIsFull_OverBatchSize(Classes) == Cardinality(Classes) > BatchSize

\* Classes.Num() >= BatchSize (line 132).
BatchIsFull(Classes) == Cardinality(Classes) >= BatchSize

\* The loop of lines 126-142 from the soft paths not yet visited: the classes
\* that reload are collected until the batch is full or the paths run out;
\* a path that does not reload is passed over.
RECURSIVE BatchLoop(_, _, _)
BatchLoop(SoftPaths, Loadable, Classes) ==
    IF SoftPaths = <<>> THEN [Classes |-> Classes, Rest |-> <<>>, bFull |-> FALSE]
    ELSE IF Head(SoftPaths) \in Loadable
         THEN IF BatchIsFull(RangeOf(Append(Classes, Head(SoftPaths))))
              THEN [Classes |-> Append(Classes, Head(SoftPaths)), Rest |-> Tail(SoftPaths),
                    bFull |-> TRUE]
              ELSE BatchLoop(Tail(SoftPaths), Loadable, Append(Classes, Head(SoftPaths)))
    ELSE BatchLoop(Tail(SoftPaths), Loadable, Classes)

\* One SpatialGDKGenerateSchemaForClasses call of the commandlet, with the
\* default output path; its result is not looked at.
CommandletCall(Classes) ==
    \E r \in {SpatialGDKGenerateSchemaForClasses(Cur, Classes, <<>>)} :
       /\ Commit(r.state)
       /\ Issue(Cur, r.state)
       /\ bValidationFailed' = (bValidationFailed \/ ~r.result)
       /\ runCalls' = Append(runCalls,
             [Classes |-> RangeOf(Classes),
              TypeInfos |-> TypeInfosOfCall(SchemaGeneratedClasses, Classes).TypeInfos,
              bResult |-> r.result])

\* The call inside the loop, once BatchSize classes are collected (lines 126-137).
CommandletBatch ==
    /\ pc = "batch"
    /\ UNCHANGED <<Call, bSchemaGeneratorRunning, bInvocationRejected, bListening>>
    /\ \E b \in {BatchLoop(PendingClasses, runClasses, <<>>)} :
          /\ b.bFull
          /\ CommandletCall(b.Classes)
          /\ PendingClasses' = b.Rest
    /\ UNCHANGED <<Database, DatabaseHistory, pc, runKind, runs, runClasses, runLevels,
                   bLoaded, runResult, runSteps>>

\* The call after the loop with the classes left over (line 143).
CommandletLastBatch ==
    /\ pc = "batch"
    /\ UNCHANGED <<Call, bSchemaGeneratorRunning, bInvocationRejected, bListening>>
    /\ \E b \in {BatchLoop(PendingClasses, runClasses, <<>>)} :
          /\ ~b.bFull
          /\ CommandletCall(b.Classes)
          /\ PendingClasses' = <<>>
    /\ pc' = "sublevels"
    /\ runSteps' = Append(runSteps, "classes")
    /\ UNCHANGED <<Database, DatabaseHistory, runKind, runs, runClasses, runLevels,
                   bLoaded, runResult>>

\* A variant of the gate of GenerateSchema that lets every invocation in.
GenerateSchemaRejects_Never == FALSE

\* FSpatialGDKEditor::GenerateSchema turns an invocation away while a
\* generation it started is in flight.
GenerateSchemaRejects == bSchemaGeneratorRunning

\* The flag is cleared when the run that set it ends.
RunEnds(bEnds) ==
    /\ bSchemaGeneratorRunning' = (bSchemaGeneratorRunning /\ ~bEnds)
    /\ bInvocationRejected' = (bInvocationRejected /\ ~bEnds)

\* The editor's in-process generation: the caller of SpatialGDKGenerateSchema
\* loads the database or resets, as the commandlet does.  It can be invoked
\* whenever no commandlet is running.
EditorBegin ==
    /\ pc = "idle" \/ runKind = "editor"
    /\ ~GenerateSchemaRejects
    /\ bInvocationRejected' = FALSE
    /\ UNCHANGED <<Call, bListening>>
    /\ runs < MaxRuns
    /\ StartRunHistory("editor")
    /\ \E f \in FileConditions :
         \E fs1 \in FolderConditionsOf(Cur) :
          \E s1 \in {RefreshSchemaFiles(Cur, fs1).state} :
           \E fs2 \in FolderConditionsOf(s1) :
            \E r \in {LoadOrReset(s1, f, fs2)} :
            IF IsAssetReadOnly(Database, f.bIsReadOnly)
            THEN /\ Commit(Cur)
                 /\ pc' = "idle"
                 /\ runResult' = "readonly"
                 /\ bSchemaGeneratorRunning' = FALSE
                 /\ UNCHANGED <<bLoaded, issued>>
            ELSE /\ Commit(r.state)
                 /\ pc' = "editor"
                 /\ runResult' = "running"
                 /\ bSchemaGeneratorRunning' = TRUE
                 /\ bLoaded' = r.bLoaded
                 /\ issued' = IF r.bLoaded THEN DatabaseHistory.Issued ELSE {}

\* A GenerateSchema invocation that is turned away: nothing is started.
EditorGenerateSchemaRejected ==
    /\ GenerateSchemaRejects
    /\ bInvocationRejected' = TRUE
    /\ UNCHANGED <<genVars, Database, pc, runKind, bSchemaGeneratorRunning, PendingClasses, runs,
                   runClasses, runLevels, bLoaded, bValidationFailed, runResult, runCalls,
                   runSteps, issued, reissued, DatabaseHistory, Call, bListening>>

\* SpatialGDKGenerateSchema up to the class generation (lines 945-957).
EditorGenerateClasses ==
    /\ pc = "editor"
    /\ UNCHANGED <<Call, bListening>>
    /\ \E SupportedClasses \in SUBSET AllSupportedClasses :
         \E order \in Orderings(SupportedClasses) :
            \E r \in {SpatialGDKGenerateSchemaForClasses(
                         [Cur EXCEPT !.SchemaGeneratedClasses = {}], order,
                         GeneratedSchemaOutputFolder)} :
               /\ Commit(r.state)
               /\ Issue(Cur, r.state)
               /\ runClasses' = SupportedClasses
               /\ bValidationFailed' = ~r.result
               /\ runCalls' = Append(runCalls,
                     [Classes |-> SupportedClasses,
                      TypeInfos |-> TypeInfosOfCall({}, order).TypeInfos,
                      bResult |-> r.result])
               /\ runSteps' = Append(runSteps, "classes")
               /\ pc' = IF r.result THEN "sublevels" ELSE "idle"
               /\ runResult' = IF r.result THEN runResult ELSE "validation"
    /\ UNCHANGED <<Database, DatabaseHistory, runKind, runs, runLevels, bLoaded, PendingClasses>>
    /\ RunEnds(pc' = "idle")

\* GenerateSchemaForSublevels, then GenerateSchemaForRPCEndpoints, which
\* touches none of the state.
SublevelsStep ==
    /\ pc = "sublevels"
    /\ UNCHANGED <<Call, bSchemaGeneratorRunning, bInvocationRejected, bListening>>
    /\ \E LevelNamesToPaths \in LevelInputs :
         \E s2 \in {GenerateSchemaForSublevels(Cur, LevelNamesToPaths)} :
            /\ Commit(s2)
            /\ Issue(Cur, s2)
            /\ runLevels' = LevelNamesToPaths
    /\ pc' = "ncds"
    /\ runSteps' = runSteps \o <<"sublevels", "rpcendpoints">>
    /\ UNCHANGED <<Database, DatabaseHistory, runKind, runs, runClasses, bLoaded,
                   bValidationFailed, runResult, runCalls, PendingClasses>>

NCDsStep ==
    /\ pc = "ncds"
    /\ UNCHANGED <<Call, bSchemaGeneratorRunning, bInvocationRejected, bListening>>
    /\ \E s2 \in {GenerateSchemaForNCDs(Cur)} :
          Commit(s2) /\ Issue(Cur, s2)
    /\ pc' = "compile"
    /\ runSteps' = Append(runSteps, "ncds")
    /\ UNCHANGED <<Database, DatabaseHistory, runKind, runs, runClasses, runLevels, bLoaded,
                   bValidationFailed, runResult, runCalls, PendingClasses>>

\* What RunSchemaCompiler meets: whether the compiled schema directory exists
\* and can be deleted and created, whether the command line asks for an AST
\* output and its directory can be created, and the compiler process.  A
\* process that started reports ReturnCode; for one that did not start,
\* ExecProcess either leaves the caller's variable alone or writes the
\* platform's error code, which is not 0.
CompilerProcesses ==
    {[bStarted |-> TRUE, bWritesCode |-> TRUE, ReturnCode |-> n] : n \in 0..MaxExitCode}
    \cup {[bStarted |-> FALSE, bWritesCode |-> TRUE, ReturnCode |-> n] : n \in 1..MaxExitCode}
    \cup {[bStarted |-> FALSE, bWritesCode |-> FALSE, ReturnCode |-> 0]}

CompilerEnvironments ==
    [bDirectoryExists : BOOLEAN, bDeleted : BOOLEAN, bCreated : BOOLEAN,
     bAstRequested : BOOLEAN, bAstCreated : BOOLEAN, Process : CompilerProcesses]

\* The early returns of RunSchemaCompiler (lines 875-918) are not taken.
DirectoriesPrepared(env) ==
    /\ env.bDirectoryExists => env.bDeleted
    /\ env.bCreated
    /\ env.bAstRequested => env.bAstCreated

\* FPlatformProcess::ExecProcess with &ExitCode: the variable afterwards.
ExecProcess(ExitCode, Process) ==
    IF Process.bWritesCode THEN Process.ReturnCode ELSE ExitCode

\* A variant of RunSchemaCompiler whose ExitCode starts at 0.
RunSchemaCompiler_ExitCodeStartsAtZero(env) ==
    DirectoriesPrepared(env) /\ ExecProcess(0, env.Process) = 0

\* RunSchemaCompiler: false when a directory could not be prepared; otherwise
\* ExitCode starts at 1, ExecProcess runs, and the result is ExitCode == 0.
RunSchemaCompiler(env) ==
    DirectoriesPrepared(env) /\ ExecProcess(1, env.Process) = 0

\* The compiler runs a generation meets: the directories are fresh and the
\* process reports 0 or 1, the directory cannot be created, or the process
\* does not start.
CompilerRuns ==
    {env \in CompilerEnvironments :
        /\ ~env.bDirectoryExists /\ env.bDeleted /\ ~env.bAstRequested /\ env.bAstCreated
        /\ \/ env.bCreated /\ env.Process.bStarted /\ env.Process.ReturnCode <= 1
           \/ ~env.bCreated /\ env.Process.bStarted /\ env.Process.ReturnCode = 0
           \/ env.bCreated /\ ~env.Process.bStarted /\ ~env.Process.bWritesCode}

\* A variant of the callers' test of RunSchemaCompiler that goes on to the
\* save whatever the result.
AfterRunSchemaCompiler_IgnoresResult(bResult) == "save"

\* if (!RunSchemaCompiler()) return: where the caller stands afterwards.
AfterRunSchemaCompiler(bResult) == IF bResult THEN "save" ELSE "idle"

CompileStep ==
    /\ pc = "compile"
    /\ UNCHANGED <<Call, bListening>>
    /\ \E env \in CompilerRuns :
         /\ pc' = AfterRunSchemaCompiler(RunSchemaCompiler(env))
         /\ runResult' = IF RunSchemaCompiler(env) THEN runResult ELSE "compiler"
         /\ runSteps' = Append(runSteps, IF RunSchemaCompiler(env) THEN "compiler"
                                         ELSE "compilerfailed")
    /\ UNCHANGED <<genVars, Database, DatabaseHistory, runKind, runs, runClasses, runLevels,
                   bLoaded, bValidationFailed, runCalls, issued, reissued, PendingClasses>>
    /\ RunEnds(pc' = "idle")

SaveStep ==
    /\ pc = "save"
    /\ UNCHANGED <<Call, bListening>>
    /\ \E bSavePackage \in BOOLEAN, Descriptor \in DescriptorReads :
         /\ Database' = SaveSchemaDatabase(Cur, Database, Descriptor, bSavePackage)
         /\ Commit(KeySort(Cur))
         /\ DatabaseHistory' =
               IF bSavePackage
               THEN [Issued |-> issued, Classes |-> runClasses, Levels |-> runLevels,
                     Kind |-> runKind, bValidationFailed |-> bValidationFailed,
                     bLoaded |-> bLoaded,
                     bDescriptorRead |-> Descriptor.bOpened /\ Descriptor.bRead]
               ELSE DatabaseHistory
         /\ runResult' = IF bSavePackage THEN "saved" ELSE "savefailed"
    /\ pc' = "idle"
    /\ runSteps' = Append(runSteps, "save")
    /\ UNCHANGED <<runKind, runs, runClasses, runLevels, bLoaded, bValidationFailed,
                   runCalls, issued, reissued, PendingClasses>>
    /\ RunEnds(pc' = "idle")

\* DeleteSchemaDatabase called on the database file while no run is in
\* flight.  DeleteFile fails only for a file that is not there.
DeleteSchemaDatabaseCall ==
    /\ pc = "idle"
    /\ \E f \in FileConditions :
         \E r \in {DeleteSchemaDatabase(Database, f.bIsReadOnly, Database.Valid)} :
            /\ Database' = r.Database
            /\ DatabaseHistory' = IF r.Database.Valid THEN DatabaseHistory ELSE NoHistory
    /\ UNCHANGED <<genVars, pc, runKind, bSchemaGeneratorRunning, bInvocationRejected,
                   bListening, PendingClasses, runs, runClasses, runLevels, bLoaded,
                   bValidationFailed, runResult, runCalls, runSteps, issued, reissued, Call>>

\* FObjectListener::OnUObjectArrayShutdown: the listener removes itself from
\* the listeners of GUObjectArray.  The object array calls it on the
\* listeners still registered when it shuts down, as the process of the
\* commandlet ends.  StopListening has taken Main's listener out by then
\* unless Main returned at the read-only test; the listener is a local of
\* Main and destroyed, so the call goes through a pointer to a dead object:
\* it removes the entry, or it does not get that far.
OnUObjectArrayShutdown ==
    /\ pc = "idle"
    /\ bListening
    /\ \E bRemoves \in BOOLEAN : bListening' = (bListening /\ ~bRemoves)
    /\ UNCHANGED <<genVars, Database, pc, runKind, bSchemaGeneratorRunning, bInvocationRejected,
                   PendingClasses, runs, runClasses, runLevels, bLoaded, bValidationFailed,
                   runResult, runCalls, runSteps, issued, reissued, DatabaseHistory, Call>>

Next ==
    \/ DeleteSchemaDatabaseCall
    \/ CommandletBegin
    \/ OnUObjectArrayShutdown
    \/ CommandletCook
    \/ CommandletBatch
    \/ CommandletLastBatch
    \/ EditorBegin
    \/ EditorGenerateSchemaRejected
    \/ EditorGenerateClasses
    \/ SublevelsStep
    \/ NCDsStep
    \/ CompileStep
    \/ SaveStep

Spec == Init /\ [][Next]_vars

(***************************************************************************)
(* An id generator of its own: seeded, then called MaxCalls times at most. *)
(***************************************************************************)
IdGeneratorSeeds ==
    {0, 1, STARTING_GENERATED_COMPONENT_ID - 1, STARTING_GENERATED_COMPONENT_ID,
     STARTING_GENERATED_COMPONENT_ID + 7}

InitIdGenerator ==
    /\ InitRun
    /\ \E Seed \in IdGeneratorSeeds :
          Call = [Kind |-> "generator", Seed |-> Seed, CurrentId |-> Seed, Log |-> <<>>]

\* What the log keeps of one call: the counter before it, the value it
\* returned and the counter after it.
LogEntry(Op, r) ==
    [Op |-> Op, Value |-> r.Id, Before |-> Call.CurrentId, After |-> r.NextId]

GeneratorNext ==
    /\ Len(Call.Log) < MaxCalls
    /\ LET r == IdGeneratorNext(Call.CurrentId)
       IN Call' = [Call EXCEPT !.CurrentId = r.NextId,
                               !.Log = Append(@, LogEntry("Next", r))]
    /\ UNCHANGED runVars

GeneratorPeek ==
    /\ Len(Call.Log) < MaxCalls
    /\ LET r == IdGeneratorPeek(Call.CurrentId)
       IN Call' = [Call EXCEPT !.CurrentId = r.NextId,
                               !.Log = Append(@, LogEntry("Peek", r))]
    /\ UNCHANGED runVars

NextIdGenerator ==
    \/ GeneratorNext
    \/ GeneratorPeek

SpecIdGenerator == InitIdGenerator /\ [][NextIdGenerator]_vars

(***************************************************************************)
(* The name validation on its own: ValidateIdentifierNames on a list of    *)
(* TypeInfos with the name tables empty or holding a committed name,       *)
(* CheckIdentifierNameValidity on one TypeInfo, CheckSchemaNameValidity on *)
(* the sanitized form of a name.                                           *)
(***************************************************************************)
ValidationClasses ==
    {PathA, PathB, PathC, PathX, PathK, PathDigit, PathEmpty, PathHand, PathSub, PathProp,
     PathCross, PathCase}

\* The sequences without repetition of at most n elements of S.
RECURSIVE DistinctSeqs(_, _)
DistinctSeqs(S, n) ==
    IF n = 0 THEN {<<>>}
    ELSE LET shorter == DistinctSeqs(S, n - 1)
         IN shorter \cup {Append(q, x) : <<q, x>> \in
                             {<<q2, x2>> \in shorter \X S : x2 \notin RangeOf(q2)}}

NameCharacters == {"F", "1", "-"}

RECURSIVE NamesUpTo(_)
NamesUpTo(n) ==
    IF n = 0 THEN {<<>>}
    ELSE LET shorter == NamesUpTo(n - 1)
         IN shorter \cup {Append(q, ch) : <<q, ch>> \in shorter \X NameCharacters}

\* The names ResetUsedNames has replayed when validation starts: none, the
\* name of the class of a loaded database, or the name of a class of a loaded
\* database that differs from the name of /e.K in case only.
CommittedNameTables == {EmptyMap, PathB :> <<"F">>, PathSmallK :> <<"k">>}

\* The name tables with the committed names in them, each entered as
\* ResetUsedNames enters it.
RECURSIVE WithCommittedNames(_, _, _)
WithCommittedNames(s, Committed, Paths) ==
    IF Paths = <<>> THEN s
    ELSE WithCommittedNames(
            ResolveClassPathToSchemaName(s, Head(Paths), Committed[Head(Paths)]),
            Committed, Tail(Paths))

InitValidation ==
    /\ InitRun
    /\ \/ \E TypeInfos \in DistinctSeqs(ValidationClasses, MaxTypeInfos),
             Committed \in CommittedNameTables :
             Call = [Kind |-> "typeinfos", TypeInfos |-> TypeInfos, Committed |-> Committed,
                     bDone |-> FALSE]
       \/ \E UnrealName \in NamesUpTo(MaxNameLen) :
             Call = [Kind |-> "name", UnrealName |-> UnrealName, bDone |-> FALSE]
       \/ \E TypeInfo \in ValidationClasses, bOutSuccess \in BOOLEAN :
             Call = [Kind |-> "typeinfo", TypeInfo |-> TypeInfo, bOutSuccess |-> bOutSuccess,
                     bDone |-> FALSE]

ValidateTypeInfos ==
    /\ Call.Kind = "typeinfos" /\ ~Call.bDone
    /\ LET s == WithCommittedNames(Cur, Call.Committed, SortedKeys(DOMAIN Call.Committed))
           r == ValidateIdentifierNames(s, Call.TypeInfos)
       IN Call' = [Kind |-> "typeinfos", TypeInfos |-> Call.TypeInfos,
                   Committed |-> Call.Committed, bDone |-> TRUE,
                   bSuccess |-> r.bSuccess,
                   ClassPathToSchemaName |-> r.state.ClassPathToSchemaName,
                   SchemaNameToClassPath |-> r.state.SchemaNameToClassPath]
    /\ UNCHANGED runVars

CheckSanitizedName ==
    /\ Call.Kind = "name" /\ ~Call.bDone
    /\ LET Name == UnrealNameToSchemaName(Call.UnrealName, TRUE)
       IN Call' = [Kind |-> "name", UnrealName |-> Call.UnrealName, bDone |-> TRUE,
                   Name |-> Name, bResult |-> CheckSchemaNameValidity(Name)]
    /\ UNCHANGED runVars

\* CheckIdentifierNameValidity on one TypeInfo, the flag being bOutSuccess
\* before the call and bResult after it.
CheckTypeInfo ==
    /\ Call.Kind = "typeinfo" /\ ~Call.bDone
    /\ Call' = [Kind |-> "typeinfo", TypeInfo |-> Call.TypeInfo,
                bOutSuccess |-> Call.bOutSuccess, bDone |-> TRUE,
                bResult |-> CheckIdentifierNameValidity(Call.TypeInfo, Call.bOutSuccess)]
    /\ UNCHANGED runVars

NextValidation ==
    \/ ValidateTypeInfos
    \/ CheckSanitizedName
    \/ CheckTypeInfo

SpecValidation == InitValidation /\ [][NextValidation]_vars

(***************************************************************************)
(* RunSchemaCompiler on its own, in every environment.                     *)
(***************************************************************************)
InitCompiler ==
    /\ InitRun
    /\ \E env \in CompilerEnvironments :
          Call = [Kind |-> "compiler", Environment |-> env, bDone |-> FALSE]

CompileSchema ==
    /\ Call.Kind = "compiler" /\ ~Call.bDone
    /\ Call' = [Kind |-> "compiler", Environment |-> Call.Environment, bDone |-> TRUE,
                bResult |-> RunSchemaCompiler(Call.Environment)]
    /\ UNCHANGED runVars

NextCompiler == CompileSchema

SpecCompiler == InitCompiler /\ [][NextCompiler]_vars

(***************************************************************************)
(* The batch loop of the commandlet on its own (lines 124-143), one step   *)
(* per iteration: the sorted soft paths, the classes that reload, the      *)
(* batch collected so far and the class sets the calls were given.         *)
(***************************************************************************)
InitBatching ==
    /\ InitRun
    /\ \E Referenced \in SUBSET AllClasses :
          \E order \in Orderings(Referenced), Loadable \in SUBSET Referenced :
             Call = [Kind |-> "batching", ReferencedClasses |-> SortFNameLexical(order),
                     Loadable |-> Loadable, i |-> 1, Classes |-> {}, Calls |-> <<>>,
                     bDone |-> FALSE]

\* TryLoadClass gives the class: it is added to the batch, and a full batch
\* is passed to SpatialGDKGenerateSchemaForClasses and emptied (lines 128-137).
BatchingReloaded ==
    /\ Call.Kind = "batching" /\ ~Call.bDone
    /\ Call.i <= Len(Call.ReferencedClasses)
    /\ Call.ReferencedClasses[Call.i] \in Call.Loadable
    /\ LET Classes == Call.Classes \cup {Call.ReferencedClasses[Call.i]}
       IN Call' = IF BatchIsFull(Classes)
                  THEN [Call EXCEPT !.i = @ + 1, !.Classes = {},
                                    !.Calls = Append(@, Classes)]
                  ELSE [Call EXCEPT !.i = @ + 1, !.Classes = Classes]
    /\ UNCHANGED runVars

\* TryLoadClass gives nothing: a warning, and the loop goes on (lines 138-141).
BatchingReloadFailed ==
    /\ Call.Kind = "batching" /\ ~Call.bDone
    /\ Call.i <= Len(Call.ReferencedClasses)
    /\ Call.ReferencedClasses[Call.i] \notin Call.Loadable
    /\ Call' = [Call EXCEPT !.i = @ + 1]
    /\ UNCHANGED runVars

\* The call after the loop (line 143).
BatchingFinalCall ==
    /\ Call.Kind = "batching" /\ ~Call.bDone
    /\ Call.i > Len(Call.ReferencedClasses)
    /\ Call' = [Call EXCEPT !.Classes = {}, !.Calls = Append(@, Call.Classes),
                            !.bDone = TRUE]
    /\ UNCHANGED runVars

NextBatching ==
    \/ BatchingReloaded
    \/ BatchingReloadFailed
    \/ BatchingFinalCall

SpecBatching == InitBatching /\ [][NextBatching]_vars

(***************************************************************************)
(* Properties.                                                             *)
(***************************************************************************)
\* No id other than 0 fills two places of the sequence.
PairwiseDistinct(seq) ==
    \A i, j \in 1..Len(seq) : (i < j /\ seq[i] # INVALID_COMPONENT_ID) => seq[i] # seq[j]

\* The classes with a record in a set of tables, and a class's record.
StoredClasses(t) == DOMAIN t.ActorClassPathToSchema \cup DOMAIN t.SubobjectClassPathToSchema
RecordOf(t, P) ==
    IF P \in DOMAIN t.ActorClassPathToSchema
    THEN t.ActorClassPathToSchema[P]
    ELSE t.SubobjectClassPathToSchema[P]

\* The non-zero ids of one class's record.
ClassIds(t, P) ==
    RangeOf(TableIds(
        [ActorClassPathToSchema |->
            [Q \in DOMAIN t.ActorClassPathToSchema \cap {P} |-> t.ActorClassPathToSchema[Q]],
         SubobjectClassPathToSchema |->
            [Q \in DOMAIN t.SubobjectClassPathToSchema \cap {P} |-> t.SubobjectClassPathToSchema[Q]],
         LevelPathToComponentId |-> EmptyMap,
         NetCullDistanceToComponentId |-> <<>>])) \ {INVALID_COMPONENT_ID}

\* The ids of the class records of t whose class has no record in old.
NewClassIds(t, old) == UNION {ClassIds(t, P) : P \in StoredClasses(t) \ StoredClasses(old)}

\* The four tables of the generator state equal those of the database file.
TablesAsInDatabase ==
    /\ ActorClassPathToSchema = Database.ActorClassPathToSchema
    /\ SubobjectClassPathToSchema = Database.SubobjectClassPathToSchema
    /\ LevelPathToComponentId = Database.LevelPathToComponentId
    /\ NetCullDistanceToComponentId = Database.NetCullDistanceToComponentId

\* C1: in every step of a run (class batches, sublevels, net-cull distances,
\* compile, save) NextAvailableComponentId does not decrease, and along a
\* database's lineage (load, generate, save, load, ...) no generation phase
\* hands out an id that was handed out before or hands one id to two places.
C1_CounterMonotonicNoIdReissued ==
    /\ [](~reissued)
    /\ [][runResult = "running" => NextAvailableComponentId' >= NextAvailableComponentId]_vars

\* A second commandlet run with several batches on a loaded database has
\* handed out ids on top of those the first run handed out.
C1_Witness ==
    /\ runs = 2 /\ bLoaded /\ pc = "compile" /\ runKind = "commandlet"
    /\ Cardinality(runClasses) > BatchSize
    /\ DatabaseHistory.Issued # {}
    /\ issued \ DatabaseHistory.Issued # {}
    /\ NextAvailableComponentId > Database.NextAvailableComponentId

\* C2: the non-zero ids of the actor records (with their static subobjects),
\* the subobject records, LevelPathToComponentId and
\* NetCullDistanceToComponentId are pairwise distinct, in the generator state
\* and in the saved database.
C2_IdsPairwiseDistinct ==
    /\ PairwiseDistinct(TableIds(Cur))
    /\ Database.Valid => PairwiseDistinct(TableIds(Database))

\* A saved database that holds ids in all four tables.
C2_Witness ==
    /\ runResult = "saved" /\ Database.Valid
    /\ PathA \in DOMAIN Database.ActorClassPathToSchema
    /\ PathK \in DOMAIN Database.SubobjectClassPathToSchema
    /\ Cardinality(DOMAIN Database.LevelPathToComponentId) = 2
    /\ Len(Database.NetCullDistanceToComponentId) = 2
    /\ \A i \in 1..2 : Database.NetCullDistanceToComponentId[i].Value # INVALID_COMPONENT_ID

\* C3: in a run that loaded the database, every class stored in the database
\* keeps its stored ids, and every id of a class that was not stored is at
\* least the persisted NextAvailableComponentId, is held nowhere in the
\* database and was never handed out in the database's lineage.
C3_StoredIdsKeptNewIdsFresh ==
    (bLoaded /\ runResult = "running") =>
        /\ \A P \in DOMAIN Database.ActorClassPathToSchema :
              /\ P \in DOMAIN ActorClassPathToSchema
              /\ ActorClassPathToSchema[P].SchemaComponents
                    = Database.ActorClassPathToSchema[P].SchemaComponents
              /\ ActorClassPathToSchema[P].SubobjectData
                    = Database.ActorClassPathToSchema[P].SubobjectData
        /\ \A P \in DOMAIN Database.SubobjectClassPathToSchema :
              /\ P \in DOMAIN SubobjectClassPathToSchema
              /\ SubobjectClassPathToSchema[P].DynamicSubobjectComponents
                    = Database.SubobjectClassPathToSchema[P].DynamicSubobjectComponents
        /\ \A id \in NewClassIds(Cur, Database) :
              /\ id >= Database.NextAvailableComponentId
              /\ id \notin RangeOf(TableIds(Database))
              /\ id \notin DatabaseHistory.Issued

\* The database holds /a.F, and the run over {/a.F, /b.F-} has generated both.
C3_Witness ==
    /\ bLoaded /\ pc = "save" /\ ~bValidationFailed
    /\ runClasses = {PathA, PathB}
    /\ PathA \in DOMAIN Database.ActorClassPathToSchema
    /\ PathB \notin DOMAIN Database.ActorClassPathToSchema
    /\ PathB \in DOMAIN ActorClassPathToSchema

\* C4: SaveSchemaDatabase is reached only when no class batch of the run
\* failed name validation, and a run in which a batch failed does not replace
\* the database file.
C4_SaveOnlyAfterEveryStepSucceeded ==
    /\ pc = "save" => ~bValidationFailed
    /\ runResult = "saved" /\ Database.Valid => ~DatabaseHistory.bValidationFailed

\* A class with two replicated properties of one group whose sanitized field
\* names are equal.
HasCollidingReplicatedProperties(P) ==
    \E g \in DOMAIN ClassInfo(P).RepData :
        \E i, j \in 1..Len(ClassInfo(P).RepData[g]) :
            /\ i < j
            /\ SchemaFieldName(ClassInfo(P).RepData[g][i]) = SchemaFieldName(ClassInfo(P).RepData[g][j])

\* C5: when a class of the run has two replicated properties with equal
\* sanitized field names, then once the class phase is over the run has
\* reported a name validation failure and no class schema file was written
\* in the run.
C5_CollidingPropertiesWriteNoSchemaFile ==
    ((\E P \in runClasses : HasCollidingReplicatedProperties(P))
        /\ (pc = "sublevels" \/ runResult = "validation"))
    => (bValidationFailed /\ SchemaFiles = {})

NameF == <<"F">>
NameF1 == <<"F", "1">>
NameF2 == <<"F", "2">>

\* Name is Base followed by no or more digits.
IsSuffixedName(Name, Base) ==
    /\ Len(Name) >= Len(Base)
    /\ SubSeq(Name, 1, Len(Base)) = Base
    /\ \A i \in (Len(Base) + 1)..Len(Name) : FCharIsDigit(Name[i])

\* The schema names the loaded database holds for the run.
CommittedNames ==
    IF bLoaded THEN {RecordOf(Database, P).GeneratedSchemaName : P \in StoredClasses(Database)}
    ELSE {}

\* The class phase of a run over /a.F and /b.F-, both sanitizing to "F", is
\* over and every SpatialGDKGenerateSchemaForClasses call of it returned true.
BothFooClassesProcessed ==
    pc = "sublevels" /\ {PathA, PathB} \subseteq runClasses /\ ~bValidationFailed

BothRecordedUnderFoo ==
    /\ MapContains(PotentialSchemaNameCollisions, NameF)
    /\ CollisionEntry(PathA, ClassPathToSchemaName[PathA])
          \in MapFind(PotentialSchemaNameCollisions, NameF)
    /\ CollisionEntry(PathB, ClassPathToSchemaName[PathB])
          \in MapFind(PotentialSchemaNameCollisions, NameF)

\* C6 as stated: the first class in processing order, /a.F, gets "F" and the
\* second, /b.F-, gets "F1"; both are recorded under "F"; their ids are distinct.
C6_FirstFooSecondFoo1 ==
    BothFooClassesProcessed =>
        /\ ClassPathToSchemaName[PathA] = NameF
        /\ ClassPathToSchemaName[PathB] = NameF1
        /\ BothRecordedUnderFoo
        /\ ClassIds(Cur, PathA) \cap ClassIds(Cur, PathB) = {}

\* The names the suffix loop tries in turn for a class that wants Base: Base
\* itself, then Base with the suffix 1, 2, ...
SuffixedName(Base, k) == IF k = 0 THEN Base ELSE Base \o <<Digits[k + 1]>>

\* The class has a record in the database the run loaded.
Committed(P) == bLoaded /\ P \in StoredClasses(Database)

\* Q had its name when the turn of P came: it is committed, or it stands
\* before P in processing order, which is the order of the path names.
NamedBefore(Q, P) == Committed(Q) \/ StrLess(Q, P)

\* P has the first name of "F", "F1", "F2", ... that no class held when its
\* turn came.
HasFirstFreeName(P) ==
    \E k \in 0..(Len(Digits) - 1) :
       /\ ClassPathToSchemaName[P] = SuffixedName(NameF, k)
       /\ \A j \in 0..(k - 1) :
             \E Q \in (DOMAIN ClassPathToSchemaName) \ {P} :
                /\ StrEqual(ClassPathToSchemaName[Q], SuffixedName(NameF, j))
                /\ NamedBefore(Q, P)
       /\ \A Q \in (DOMAIN ClassPathToSchemaName) \ {P} :
             NamedBefore(Q, P) =>
                ~StrEqual(ClassPathToSchemaName[Q], SuffixedName(NameF, k))

\* No class but /a.F and /b.F- holds "F" or "F1".
FooAndFoo1HeldByNoOther ==
    \A Q \in (DOMAIN ClassPathToSchemaName) \ {PathA, PathB} :
       ~StrEqual(ClassPathToSchemaName[Q], NameF) /\ ~StrEqual(ClassPathToSchemaName[Q], NameF1)

\* C6 amended: each of the two classes keeps the name of its record in the
\* loaded database when it has one, and otherwise has the first of "F", "F1",
\* "F2", ... that no class held when its turn came, the names held being the
\* committed ones and those given before in the run; the two names are
\* distinct, each "F" followed by no or more digits; they are "F" for the
\* first and "F1" for the second when neither is committed and no other class
\* holds "F" or "F1"; both are recorded under "F"; both have ids, and their
\* ids are distinct.
C6_DistinctSuffixedNames ==
    BothFooClassesProcessed =>
        /\ \A P \in {PathA, PathB} :
              IF Committed(P)
              THEN ClassPathToSchemaName[P] = RecordOf(Database, P).GeneratedSchemaName
              ELSE HasFirstFreeName(P)
        /\ ~StrEqual(ClassPathToSchemaName[PathA], ClassPathToSchemaName[PathB])
        /\ IsSuffixedName(ClassPathToSchemaName[PathA], NameF)
        /\ IsSuffixedName(ClassPathToSchemaName[PathB], NameF)
        /\ (~Committed(PathA) /\ ~Committed(PathB) /\ FooAndFoo1HeldByNoOther)
              => (ClassPathToSchemaName[PathA] = NameF /\ ClassPathToSchemaName[PathB] = NameF1)
        /\ BothRecordedUnderFoo
        /\ ClassIds(Cur, PathA) # {} /\ ClassIds(Cur, PathB) # {}
        /\ ClassIds(Cur, PathA) \cap ClassIds(Cur, PathB) = {}

\* One call from the reset state names /a.F, /a.F1 and /b.F-, in this order:
\* /a.F gets "F", /a.F1 gets "F1", and /b.F-, the second class that wants
\* "F", gets "F2".
C6_Witness ==
    /\ BothFooClassesProcessed /\ ~bLoaded
    /\ PathC \in runClasses
    /\ ClassPathToSchemaName[PathA] = NameF
    /\ ClassPathToSchemaName[PathC] = NameF1
    /\ ClassPathToSchemaName[PathB] = NameF2

\* A SpatialGDKGenerateSchemaForClasses call of the current run has rebuilt
\* the name tables.  Before the first call the tables are empty in the
\* commandlet's process and left over from the last run in the editor's.
NameTablesRebuilt ==
    \/ pc \in {"sublevels", "ncds", "compile", "save"}
    \/ pc = "batch" /\ Len(runCalls) > 0

\* C7: in a run that loaded the database, every class stored in the database
\* keeps its stored GeneratedSchemaName in its record and no other record has
\* that name; once a SpatialGDKGenerateSchemaForClasses call of the run has
\* run ResetUsedNames and ValidateIdentifierNames, ClassPathToSchemaName maps
\* the class to the stored name and no other class to it, and
\* SchemaNameToClassPath maps the stored name to the class.
C7_CommittedNameStaysReserved ==
    (bLoaded /\ runResult = "running") =>
        \A P \in StoredClasses(Database) :
            LET Stored == RecordOf(Database, P).GeneratedSchemaName
            IN /\ P \in StoredClasses(Cur)
               /\ RecordOf(Cur, P).GeneratedSchemaName = Stored
               /\ \A Q \in StoredClasses(Cur) \ {P} : RecordOf(Cur, Q).GeneratedSchemaName # Stored
               /\ NameTablesRebuilt =>
                     /\ MapContains(ClassPathToSchemaName, P)
                     /\ ClassPathToSchemaName[P] = Stored
                     /\ \A Q \in (DOMAIN ClassPathToSchemaName) \ {P} :
                           ClassPathToSchemaName[Q] # Stored
                     /\ MapContains(SchemaNameToClassPath, Stored)
                     /\ SchemaNameToClassPath[Stored] = P

\* The database holds /b.F- under "F"; the run also names /a.F, which wants "F".
C7_Witness ==
    /\ bLoaded /\ pc = "sublevels"
    /\ PathB \in DOMAIN Database.ActorClassPathToSchema
    /\ PathA \notin DOMAIN Database.ActorClassPathToSchema
    /\ MapContains(ClassPathToSchemaName, PathA) /\ MapContains(ClassPathToSchemaName, PathB)
    /\ ClassPathToSchemaName[PathB] = NameF
    /\ ClassPathToSchemaName[PathA] = NameF1

\* The database file was saved by a run that started from the reset state, and
\* the current run, which also started from the reset state, has the same
\* classes and levels.
SecondRunFromEmptyOverSameInputs ==
    /\ ~bLoaded /\ pc = "save"
    /\ Database.Valid
    /\ DatabaseHistory.Kind \in {"editor", "commandlet"}
    /\ ~DatabaseHistory.bLoaded
    /\ DatabaseHistory.Classes = runClasses
    /\ DatabaseHistory.Levels = runLevels

\* C8: two runs that both start from the reset state and have the same
\* classes end with the same records (ids and schema names) and the same
\* NextAvailableComponentId, whatever order the classes are presented in and
\* whichever entry point runs them.
C8_RunsFromEmptyAreDeterministic ==
    SecondRunFromEmptyOverSameInputs =>
        /\ TablesAsInDatabase
        /\ NextAvailableComponentId = Database.NextAvailableComponentId

C8_Witness ==
    /\ SecondRunFromEmptyOverSameInputs
    /\ {PathA, PathB, PathC} \subseteq runClasses
    /\ DatabaseHistory.Kind # runKind

\* The run loaded a database saved by a run without validation failure, and
\* has the classes and levels of that run.
RerunOverSameInputs ==
    /\ bLoaded /\ pc \in {"compile", "save"}
    /\ ~DatabaseHistory.bValidationFailed
    /\ DatabaseHistory.Classes = runClasses
    /\ DatabaseHistory.Levels = runLevels

\* C9: a run that loaded the database of a successful run and has the same
\* classes, levels and net-cull distances ends with the tables the database
\* holds and mints no id: NextAvailableComponentId is the persisted one.
C9_RerunIsIdempotent ==
    RerunOverSameInputs =>
        /\ TablesAsInDatabase
        /\ NextAvailableComponentId = Database.NextAvailableComponentId
        /\ issued = DatabaseHistory.Issued

C9_Witness ==
    /\ RerunOverSameInputs /\ pc = "save"
    /\ {PathA, PathC} \subseteq runClasses
    /\ Len(runLevels[1].Paths) = 2

\* A database with an actor record whose counter is the starting id.
IsStale(db) ==
    /\ db.Valid
    /\ Cardinality(DOMAIN db.ActorClassPathToSchema) > 0
    /\ db.NextAvailableComponentId = STARTING_GENERATED_COMPONENT_ID

\* The database file with its counter set back to the starting id.
RewoundDatabase ==
    IF Database.Valid
    THEN [Database EXCEPT !.NextAvailableComponentId = STARTING_GENERATED_COMPONENT_ID]
    ELSE LegacyDatabase

\* C10: LoadGeneratorStateFromSchemaDatabase returns false for a database
\* with an actor record and the starting id as its counter, and when the
\* database file is one, the commandlet starts its cook from the reset state
\* (the clean-up of the folder that goes with the reset empties the folder
\* unless the platform file cannot delete it).
C10_StaleDatabaseRejectedAndReset ==
    /\ IsStale(RewoundDatabase)
          => ~LoadGeneratorStateFromSchemaDatabase(Cur, RewoundDatabase, FALSE, TRUE).result
    /\ (pc = "cook" /\ IsStale(Database)) =>
          /\ ~bLoaded
          /\ ActorClassPathToSchema = EmptyMap
          /\ SubobjectClassPathToSchema = EmptyMap
          /\ LevelPathToComponentId = EmptyMap
          /\ NetCullDistanceToComponentId = <<>>
          /\ NextAvailableComponentId = STARTING_GENERATED_COMPONENT_ID
          /\ SchemaGeneratedClasses = {}

\* The commandlet is about to cook after it met the stale database file.
C10_Witness ==
    /\ pc = "cook" /\ runKind = "commandlet"
    /\ IsStale(Database)
    /\ NextAvailableComponentId = STARTING_GENERATED_COMPONENT_ID

\* C11: every id the tables hold for a class, a static or dynamic subobject, a
\* level or a net-cull distance, and every id a generation phase handed out,
\* is at least STARTING_GENERATED_COMPONENT_ID, and so is the counter; also in
\* runs that loaded the database.
C11_NoIdBelowStartingId ==
    /\ \A id \in RangeOf(TableIds(Cur)) \ {INVALID_COMPONENT_ID} :
          id >= STARTING_GENERATED_COMPONENT_ID
    /\ \A id \in issued : id >= STARTING_GENERATED_COMPONENT_ID
    /\ NextAvailableComponentId >= STARTING_GENERATED_COMPONENT_ID
    /\ Database.Valid =>
          \A id \in RangeOf(TableIds(Database)) \ {INVALID_COMPONENT_ID} :
              id >= STARTING_GENERATED_COMPONENT_ID

\* A run that loaded the database has minted ids for a new class, a new level
\* and a new net-cull distance.
C11_Witness ==
    /\ bLoaded /\ pc = "compile"
    /\ StoredClasses(Cur) \ StoredClasses(Database) # {}
    /\ DOMAIN LevelPathToComponentId # DOMAIN Database.LevelPathToComponentId
    /\ Len(NetCullDistanceToComponentId) > Len(Database.NetCullDistanceToComponentId)
    /\ \A i \in 1..Len(NetCullDistanceToComponentId) :
          NetCullDistanceToComponentId[i].Value # INVALID_COMPONENT_ID

\* C12: for a generator seeded at Seed and any sequence of Next() and Peek()
\* calls: every call returns the counter as it stands, Next() leaves it one
\* higher and Peek() leaves it as it is; the values Next() returned are at
\* least Seed and no two of them are equal.
C12_NextReturnsThenIncrementsPeekReads ==
    Call.Kind = "generator" =>
      /\ \A i \in 1..Len(Call.Log) :
            LET e == Call.Log[i]
            IN /\ e.Before = IF i = 1 THEN Call.Seed ELSE Call.Log[i - 1].After
               /\ e.Value = e.Before
               /\ e.After = IF e.Op = "Next" THEN e.Before + 1 ELSE e.Before
               /\ e.Op = "Next" => e.Value >= Call.Seed
      /\ \A i, j \in 1..Len(Call.Log) :
            i < j /\ Call.Log[i].Op = "Next" /\ Call.Log[j].Op = "Next"
               => Call.Log[i].Value # Call.Log[j].Value
      /\ Call.CurrentId = IF Call.Log = <<>> THEN Call.Seed
                          ELSE Call.Log[Len(Call.Log)].After

\* Next(), Peek(), Next(), Next() on a generator seeded at the starting id.
C12_Witness ==
    /\ Call.Kind = "generator"
    /\ Call.Seed = STARTING_GENERATED_COMPONENT_ID
    /\ Len(Call.Log) = MaxCalls
    /\ Call.Log[1].Op = "Next" /\ Call.Log[2].Op = "Peek"
    /\ Call.Log[3].Op = "Next" /\ Call.Log[MaxCalls].Op = "Next"

\* The level paths of a GetLevelNamesToPathsMap result.
LevelPathsOf(LevelNamesToPaths) ==
    UNION {RangeOf(LevelNamesToPaths[k].Paths) : k \in 1..Len(LevelNamesToPaths)}

\* The ids the counter hands out on the way from NextId to NextId2.
Minted(NextId, NextId2) == NextId..(NextId2 - 1)

\* C13: GenerateSchemaForSublevels and GenerateSchemaForNCDs reuse or mint: a
\* key that has a non-zero id keeps it, a key without one gets one newly
\* minted id (the counter moves by exactly the number of such keys), and after
\* the call every processed key has one non-zero id and distinct keys have
\* distinct ids.  The call of GenerateSchemaForSublevels is the step from
\* "sublevels" to "ncds", that of GenerateSchemaForNCDs the step from "ncds"
\* to "compile".
C13_SublevelsReuseOrMint ==
    LET processed == LevelPathsOf(runLevels')
        old == LevelPathToComponentId
        new == LevelPathToComponentId'
        needy == {p \in processed : FindRef(old, p) = INVALID_COMPONENT_ID}
        minted == Minted(NextAvailableComponentId, NextAvailableComponentId')
    IN (pc = "sublevels" /\ pc' = "ncds") =>
         /\ DOMAIN new = DOMAIN old \cup processed
         /\ \A p \in DOMAIN old : old[p] # INVALID_COMPONENT_ID => new[p] = old[p]
         /\ \A p \in processed : new[p] # INVALID_COMPONENT_ID
         /\ \A p \in needy : new[p] \in minted
         /\ Cardinality(minted) = Cardinality(needy)
         /\ \A p, q \in processed : p # q => new[p] # new[q]

C13_NCDsReuseOrMint ==
    LET old == NetCullDistanceToComponentId
        new == NetCullDistanceToComponentId'
        needy == {i \in 1..Len(old) : old[i].Value = INVALID_COMPONENT_ID}
        minted == Minted(NextAvailableComponentId, NextAvailableComponentId')
    IN (pc = "ncds" /\ pc' = "compile") =>
         /\ Len(new) = Len(old)
         /\ \A i \in 1..Len(old) :
               /\ new[i].Key = old[i].Key
               /\ old[i].Value # INVALID_COMPONENT_ID => new[i].Value = old[i].Value
               /\ new[i].Value # INVALID_COMPONENT_ID
         /\ \A i \in needy : new[i].Value \in minted
         /\ Cardinality(minted) = Cardinality(needy)
         /\ \A i, j \in 1..Len(new) : i # j => new[i].Value # new[j].Value

C13_ReuseOrMint == [][C13_SublevelsReuseOrMint /\ C13_NCDsReuseOrMint]_vars

\* A run that loaded the database is past both calls: one level and one
\* distance kept the id the database has for them, another level and another
\* distance got a new one.
C13_Witness ==
    /\ bLoaded /\ pc \in {"compile", "save"}
    /\ \E p, q \in LevelPathsOf(runLevels) :
          /\ MapContains(Database.LevelPathToComponentId, p)
          /\ LevelPathToComponentId[p] = Database.LevelPathToComponentId[p]
          /\ ~MapContains(Database.LevelPathToComponentId, q)
          /\ LevelPathToComponentId[q] # INVALID_COMPONENT_ID
    /\ \E i, j \in 1..Len(NetCullDistanceToComponentId) :
          /\ i <= Len(Database.NetCullDistanceToComponentId)
          /\ NetCullDistanceToComponentId[i] = Database.NetCullDistanceToComponentId[i]
          /\ j > Len(Database.NetCullDistanceToComponentId)
          /\ NetCullDistanceToComponentId[j].Value # INVALID_COMPONENT_ID

\* The component that sublevels.schema has for a level path, if it has one.
WrittenFor(LevelPath) ==
    {SublevelsSchema[k] : k \in {n \in 1..Len(SublevelsSchema) :
                                    SublevelsSchema[n].LevelPath = LevelPath}}

SublevelsGenerated == pc \in {"ncds", "compile", "save"}

\* C14: when several level paths share a level name, each path is a key of
\* LevelPathToComponentId, as it is, with an id of its own; the components
\* written for them are named <name>Ind<i>, i counting the paths from 0, and
\* the numbered name is no key of the table.
C14_SharedLevelNamePathsKeyedByPath ==
    SublevelsGenerated =>
      \A k \in 1..Len(runLevels) :
         LET entry == runLevels[k]
             numbered(i) == UnrealNameToSchemaComponentName(
                               entry.Name \o <<"I", "n", "d">> \o IntToStr(i - 1))
         IN Len(entry.Paths) > 1 =>
              \A i \in 1..Len(entry.Paths) :
                 /\ MapContains(LevelPathToComponentId, entry.Paths[i])
                 /\ LevelPathToComponentId[entry.Paths[i]] # INVALID_COMPONENT_ID
                 /\ \A j \in 1..Len(entry.Paths) :
                       i # j => LevelPathToComponentId[entry.Paths[i]]
                                   # LevelPathToComponentId[entry.Paths[j]]
                 /\ WrittenFor(entry.Paths[i]) =
                       {[Name |-> numbered(i),
                         Id |-> LevelPathToComponentId[entry.Paths[i]],
                         LevelPath |-> entry.Paths[i]]}
                 /\ ~MapContains(LevelPathToComponentId, numbered(i))
                 /\ ~MapContains(LevelPathToComponentId, entry.Name)

\* Two paths of one level name have been processed and the file has both
\* numbered components.
C14_Witness ==
    /\ SublevelsGenerated
    /\ \E k \in 1..Len(runLevels) : Len(runLevels[k].Paths) > 1
    /\ Len(SublevelsSchema) > 1
    /\ SublevelsSchema[1].Name # SublevelsSchema[Len(SublevelsSchema)].Name
    /\ SublevelsSchema[1].Id # SublevelsSchema[Len(SublevelsSchema)].Id

\* The ids of one record's component types.
IdsOf(SchemaComponents) == {SchemaComponents[ty] : ty \in SchemaComponentTypeSet}

\* The class paths under which the records of a database store an id: the
\* actor that has it, the class of the static subobject slot that has it, the
\* subobject class that has it in one of its dynamic id sets.
StoredUnder(db, id) ==
    {P \in DOMAIN db.ActorClassPathToSchema :
        id \in IdsOf(db.ActorClassPathToSchema[P].SchemaComponents)}
    \cup
    UNION {{db.ActorClassPathToSchema[Q].SubobjectData[k].ClassPath :
              k \in {n \in DOMAIN db.ActorClassPathToSchema[Q].SubobjectData :
                        id \in IdsOf(db.ActorClassPathToSchema[Q].SubobjectData[n].SchemaComponents)}} :
           Q \in DOMAIN db.ActorClassPathToSchema}
    \cup
    {P \in DOMAIN db.SubobjectClassPathToSchema :
        \E n \in 1..Len(db.SubobjectClassPathToSchema[P].DynamicSubobjectComponents) :
           id \in IdsOf(db.SubobjectClassPathToSchema[P].DynamicSubobjectComponents[n].SchemaComponents)}

\* Every id of the actor, static subobject and dynamic subobject records.
RecordIds(db) ==
    UNION {IdsOf(db.ActorClassPathToSchema[P].SchemaComponents) : P \in DOMAIN db.ActorClassPathToSchema}
    \cup
    UNION {UNION {IdsOf(db.ActorClassPathToSchema[Q].SubobjectData[k].SchemaComponents) :
                    k \in DOMAIN db.ActorClassPathToSchema[Q].SubobjectData} :
           Q \in DOMAIN db.ActorClassPathToSchema}
    \cup
    UNION {UNION {IdsOf(db.SubobjectClassPathToSchema[P].DynamicSubobjectComponents[n].SchemaComponents) :
                    n \in 1..Len(db.SubobjectClassPathToSchema[P].DynamicSubobjectComponents)} :
           P \in DOMAIN db.SubobjectClassPathToSchema}

\* C15: in the database file, every entry (id -> ClassPath) of
\* ComponentIdToClassPath has its id stored under that ClassPath in the actor,
\* static subobject or dynamic subobject records of the file, every non-zero
\* id of those records is a key, and 0 is no key.
C15_ReverseIndexMatchesRecords ==
    Database.Valid =>
      /\ \A id \in DOMAIN Database.ComponentIdToClassPath :
            /\ id # INVALID_COMPONENT_ID
            /\ Database.ComponentIdToClassPath[id] \in StoredUnder(Database, id)
      /\ RecordIds(Database) \ {INVALID_COMPONENT_ID} = DOMAIN Database.ComponentIdToClassPath

\* A saved database with an actor that has a static subobject, with the
\* dynamic id sets of the subobject's class, and with records that hold
\* INVALID_COMPONENT_ID for a component type, under several class paths.
C15_Witness ==
    /\ runResult = "saved" /\ Database.Valid
    /\ Cardinality(StoredUnder(Database, INVALID_COMPONENT_ID)) > 1
    /\ \E Q \in DOMAIN Database.ActorClassPathToSchema :
          DOMAIN Database.ActorClassPathToSchema[Q].SubobjectData # {}
    /\ \E P \in DOMAIN Database.SubobjectClassPathToSchema :
          Database.SubobjectClassPathToSchema[P].DynamicSubobjectComponents # <<>>
    /\ \E id \in DOMAIN Database.ComponentIdToClassPath :
          Database.ComponentIdToClassPath[id] = PathK

\* Generation has succeeded: the class batches of the run passed validation
\* and their schema has been generated.
GenerationSucceeded ==
    pc \in {"sublevels", "ncds", "compile", "save"} /\ ~bValidationFailed

\* The component records of a set of tables, each with the class it belongs
\* to: those of the actors, of their static subobject slots and of the dynamic
\* id sets of the subobject classes.
ComponentRecords(db) ==
    {[ClassPath |-> P, SchemaComponents |-> db.ActorClassPathToSchema[P].SchemaComponents] :
        P \in DOMAIN db.ActorClassPathToSchema}
    \cup
    UNION {{[ClassPath |-> db.ActorClassPathToSchema[Q].SubobjectData[k].ClassPath,
             SchemaComponents |-> db.ActorClassPathToSchema[Q].SubobjectData[k].SchemaComponents] :
               k \in DOMAIN db.ActorClassPathToSchema[Q].SubobjectData} :
           Q \in DOMAIN db.ActorClassPathToSchema}
    \cup
    UNION {{[ClassPath |-> P,
             SchemaComponents |->
                db.SubobjectClassPathToSchema[P].DynamicSubobjectComponents[n].SchemaComponents] :
               n \in 1..Len(db.SubobjectClassPathToSchema[P].DynamicSubobjectComponents)} :
           P \in DOMAIN db.SubobjectClassPathToSchema}

\* Every component type a class has state for has an id in every record of
\* the class.
PresentCategoriesHaveIds(db) ==
    \A r \in ComponentRecords(db) :
       \A ty \in ComponentTypesOf(r.ClassPath) :
          r.SchemaComponents[ty] # INVALID_COMPONENT_ID

EditorRunInFlight == pc # "idle" /\ runKind = "editor"

\* C17: bSchemaGeneratorRunning is true exactly while a generation started by
\* GenerateSchema is in flight; while it is true no run starts, and a
\* GenerateSchema invocation is turned away without changing anything of the
\* run in flight and without leaving a run to be started later.
C17_FlagHoldsWhileRunInFlight == bSchemaGeneratorRunning <=> EditorRunInFlight

C17_NoRunStartsWhileRunning ==
    bSchemaGeneratorRunning =>
        /\ runs' = runs
        /\ (bInvocationRejected' /\ ~bInvocationRejected) =>
              UNCHANGED <<genVars, Database, pc, runKind, PendingClasses, runClasses,
                          runLevels, bLoaded, runResult>>
        /\ (pc' = "idle") => ~bSchemaGeneratorRunning' /\ ~bInvocationRejected'

C17_SecondInvocationRejected ==
    [](C17_FlagHoldsWhileRunInFlight) /\ [][C17_NoRunStartsWhileRunning]_vars

\* An invocation was turned away while the run in flight had already
\* generated the schema of its classes.
C17_Witness ==
    /\ bSchemaGeneratorRunning /\ bInvocationRejected
    /\ pc = "compile" /\ runClasses # {}

\* A name the validation turns down: empty, or with a digit first.
IsBadName(Name) == Name = <<>> \/ Name[1] \in DigitSet

\* A scope has a violation when one of its names is bad or two of them are
\* equal, names being FStrings, which are equal when they differ in case only.
ScopeHasViolation(Names) ==
    \/ \E i \in 1..Len(Names) : IsBadName(Names[i])
    \/ \E i, j \in 1..Len(Names) : i < j /\ StrEqual(Names[i], Names[j])

HasViolation(TypeInfo) ==
    \/ IsBadName(UnrealNameToSchemaName(GetAssetName(TypeInfo), TRUE))
    \/ \E g \in 1..Len(ReplicatedPropertyGroups) :
          ScopeHasViolation(RepScopeNames(TypeInfo, ReplicatedPropertyGroups[g]))
    \/ ScopeHasViolation(HandoverScopeNames(TypeInfo))
    \/ ScopeHasViolation(SubobjectScopeNames(TypeInfo))

\* C18: ValidateIdentifierNames returns false exactly when a TypeInfo of the
\* list has a violation (class name, replicated property, handover property
\* or subobject name), wherever in the list it is and whatever follows it,
\* and it goes through the whole list: every TypeInfo has been given a
\* schema name, those after a violation too.
C18_ValidationNotFailFast ==
    (Call.Kind = "typeinfos" /\ Call.bDone) =>
       /\ Call.bSuccess <=> \A i \in 1..Len(Call.TypeInfos) : ~HasViolation(Call.TypeInfos[i])
       /\ \A i \in 1..Len(Call.TypeInfos) :
             MapContains(Call.ClassPathToSchemaName, Call.TypeInfos[i])

\* The first TypeInfo has a violation, the ones after it have none, and the
\* call has returned false.
C18_Witness ==
    /\ Call.Kind = "typeinfos" /\ Call.bDone /\ ~Call.bSuccess
    /\ Len(Call.TypeInfos) = MaxTypeInfos
    /\ Call.TypeInfos[1] = PathHand
    /\ ~IsBadName(UnrealNameToSchemaName(GetAssetName(PathHand), TRUE))
    /\ HasViolation(Call.TypeInfos[1])
    /\ \A i \in 2..Len(Call.TypeInfos) : ~HasViolation(Call.TypeInfos[i])

\* C19: CheckSchemaNameValidity returns false exactly when the sanitized name
\* is empty or starts with a digit: it returns true exactly when the name has
\* an alphanumeric character and the first of them is a letter.
C19_FalseIffEmptyOrLeadingDigit ==
    (Call.Kind = "name" /\ Call.bDone) =>
       /\ Call.bResult <=> ~IsBadName(Call.Name)
       /\ Call.bResult <=>
             \E i \in 1..Len(Call.UnrealName) :
                /\ Call.UnrealName[i] \in Letters
                /\ \A j \in 1..(i - 1) : Call.UnrealName[j] \notin Letters \cup DigitSet

\* A name whose first alphanumeric character is a digit has been turned down.
C19_Witness ==
    /\ Call.Kind = "name" /\ Call.bDone /\ ~Call.bResult
    /\ Len(Call.UnrealName) = MaxNameLen
    /\ Call.UnrealName[1] \notin Letters \cup DigitSet
    /\ Call.Name # <<>> /\ Call.Name[1] \in DigitSet

\* The collision table has the entry of a class under a name.
RecordedUnder(Name, ClassPath) ==
    /\ MapContains(PotentialSchemaNameCollisions, Name)
    /\ CollisionEntry(ClassPath, ClassPathToSchemaName[ClassPath])
          \in MapFind(PotentialSchemaNameCollisions, Name)

\* C20: every class that has a schema name, given by ValidateIdentifierNames
\* or replayed by ResetUsedNames, is recorded in PotentialSchemaNameCollisions
\* under that name, and under the sanitized class name as well when the two
\* differ.
C20_NamedClassesAreRecorded ==
    \A ClassPath \in DOMAIN ClassPathToSchemaName :
       /\ RecordedUnder(ClassPathToSchemaName[ClassPath], ClassPath)
       /\ RecordedUnder(UnrealNameToSchemaName(GetAssetName(ClassPath), TRUE), ClassPath)

\* The database's class was replayed under the name two classes want, and a
\* new class of the run got the suffixed name: the entry of the wanted name
\* has both, the entry of the suffixed name has the new class.
C20_Witness ==
    /\ bLoaded /\ pc = "sublevels"
    /\ PathB \in DOMAIN Database.ActorClassPathToSchema
    /\ PathA \notin DOMAIN Database.ActorClassPathToSchema
    /\ MapContains(ClassPathToSchemaName, PathA) /\ ClassPathToSchemaName[PathA] = NameF1
    /\ MapContains(PotentialSchemaNameCollisions, NameF)
    /\ PotentialSchemaNameCollisions[NameF] =
          {CollisionEntry(PathA, NameF1), CollisionEntry(PathB, NameF)}
    /\ MapContains(PotentialSchemaNameCollisions, NameF1)
    /\ CollisionEntry(PathA, NameF1) \in PotentialSchemaNameCollisions[NameF1]

\* The classes a run's calls have met: the classes handed in and the classes
\* nested below them.
RunTypeInfos == runClasses \cup UNION {RangeOf(NestedClasses(P)) : P \in runClasses}

\* An entry of the collision table names more than one class.
HasClassNameCollision ==
    \E Name \in DOMAIN PotentialSchemaNameCollisions :
       Cardinality(PotentialSchemaNameCollisions[Name]) > 1

\* C21: a class-name collision never blocks generation: a run's validation
\* fails only when a class of the run has an invalid or duplicate identifier,
\* whatever PotentialSchemaNameCollisions holds, so a run whose only findings
\* are class-name collisions resolved by suffixing goes on to the end.
C21_CollisionsNeverBlockGeneration ==
    /\ bValidationFailed => \E P \in RunTypeInfos : HasViolation(P)
    /\ (runResult = "validation") => bValidationFailed

\* A run over two classes that want one schema name, none of them with a
\* violation: the table has the collision, and the run has saved.
C21_Witness ==
    /\ runResult = "saved" /\ Database.Valid /\ ~bValidationFailed
    /\ {PathA, PathB} \subseteq runClasses
    /\ \A P \in RunTypeInfos : ~HasViolation(P)
    /\ HasClassNameCollision
    /\ MapContains(ClassPathToSchemaName, PathB) /\ ClassPathToSchemaName[PathB] = NameF1

\* C22: once the output directories are prepared, RunSchemaCompiler returns
\* true exactly when the compiler process reported exit code 0; a process
\* that could not be started counts as a failure.
C22_TrueIffProcessReportedZero ==
    (Call.Kind = "compiler" /\ Call.bDone /\ DirectoriesPrepared(Call.Environment)) =>
       (Call.bResult <=> /\ Call.Environment.Process.bStarted
                         /\ Call.Environment.Process.ReturnCode = 0)

\* The directories were prepared, the process did not start and nothing was
\* written to ExitCode: the call has returned false.
C22_Witness ==
    /\ Call.Kind = "compiler" /\ Call.bDone /\ ~Call.bResult
    /\ DirectoriesPrepared(Call.Environment)
    /\ Call.Environment.bDirectoryExists /\ Call.Environment.bAstRequested
    /\ ~Call.Environment.Process.bStarted /\ ~Call.Environment.Process.bWritesCode

\* The sequence is in lexicographic order of ClassPath, without repetition.
StrictlySorted(seq) == \A i, j \in 1..Len(seq) : i < j => StrLess(seq[i], seq[j])

\* The positions of R hold classes of the set in lexicographic order, and every
\* other position holds a class nested below the class of the closest position
\* of R before it.
ClassesSortedNestedAfterParent(Classes, seq, R) ==
    /\ \A i \in R : seq[i] \in Classes
    /\ \A i, j \in R : i < j => StrLess(seq[i], seq[j])
    /\ \A j \in (1..Len(seq)) \ R :
          \E i \in R : /\ i < j
                       /\ \A k \in R : k < j => k <= i
                       /\ seq[j] \in RangeOf(NestedClasses(seq[i]))

\* C23 as stated: the TypeInfos every call hands to validation and generation
\* are in lexicographic order of ClassPath, the nested classes included.
C23_TypeInfosSortedByClassPath ==
    \A i \in 1..Len(runCalls) : StrictlySorted(runCalls[i].TypeInfos)

\* C23: the TypeInfos a call hands to validation and generation hold no class
\* twice; the classes of the call's set come in lexicographic order of
\* ClassPath, and a nested class met while walking a class comes right after
\* that class and the nested classes met before it.
C23_ClassesSortedNestedAfterParent ==
    \A i \in 1..Len(runCalls) :
       LET seq == runCalls[i].TypeInfos
       IN /\ \A j, k \in 1..Len(seq) : j < k => seq[j] # seq[k]
          /\ \E R \in SUBSET (1..Len(seq)) :
                ClassesSortedNestedAfterParent(runCalls[i].Classes, seq, R)

\* A call over /a.F and /b.F-: the class nested below /a.F stands between
\* them, though its path is the greatest of the three.
C23_Witness ==
    /\ Len(runCalls) = 1
    /\ runCalls[1].Classes = {PathA, PathB}
    /\ runCalls[1].TypeInfos = <<PathA, PathK, PathB>>
    /\ StrLess(PathB, PathK)

\* The TypeInfos of the calls of the run so far, one after the other.
RECURSIVE TypeInfosOfCalls(_, _)
TypeInfosOfCalls(calls, i) ==
    IF i > Len(calls) THEN <<>> ELSE calls[i].TypeInfos \o TypeInfosOfCalls(calls, i + 1)

\* No class is turned into a TypeInfo twice in one run, and the classes that
\* were are in SchemaGeneratedClasses.
C24_NoClassTwice ==
    LET seq == TypeInfosOfCalls(runCalls, 1)
    IN /\ \A i, j \in 1..Len(seq) : i < j => seq[i] # seq[j]
       /\ RangeOf(seq) \subseteq SchemaGeneratedClasses

\* A later call of the run creates no TypeInfo for a class that is in
\* SchemaGeneratedClasses and leaves the record of such a class as it is.
C24_LaterCallSkipsGeneratedClass ==
    (Len(runCalls) > 0 /\ Len(runCalls') = Len(runCalls) + 1) =>
       \A P \in SchemaGeneratedClasses :
          /\ P \notin RangeOf(runCalls'[Len(runCalls')].TypeInfos)
          /\ P \in StoredClasses(Cur) =>
                /\ P \in DOMAIN ActorClassPathToSchema' \cup DOMAIN SubobjectClassPathToSchema'
                /\ P \in DOMAIN ActorClassPathToSchema =>
                      ActorClassPathToSchema'[P] = ActorClassPathToSchema[P]
                /\ P \in DOMAIN SubobjectClassPathToSchema =>
                      SubobjectClassPathToSchema'[P] = SubobjectClassPathToSchema[P]

\* C24: a class is turned into a TypeInfo and assigned at most once per run:
\* once it is in SchemaGeneratedClasses, as a class of a set or as a nested
\* class, no later iteration and no later call of the run processes it again,
\* so a subobject class used by several actors is assigned once.
C24_ProcessedAtMostOncePerRun ==
    []C24_NoClassTwice /\ [][C24_LaterCallSkipsGeneratedClass]_vars

\* Two batches of a commandlet run: in the first /e.K was met below /a.F and
\* not again below /a.F1, which has a subobject of class /e.K as well; the
\* second was given /e.K itself and made no TypeInfo.  Both actors' records
\* have a subobject of the one class record.
C24_Witness ==
    /\ Len(runCalls) = 2 /\ ~bValidationFailed
    /\ runCalls[1].TypeInfos = <<PathA, PathK, PathC>>
    /\ runCalls[2].Classes = {PathK}
    /\ runCalls[2].TypeInfos = <<>>
    /\ PathK \in DOMAIN SubobjectClassPathToSchema
    /\ \A P \in {PathA, PathC} :
          /\ P \in DOMAIN ActorClassPathToSchema
          /\ \E n \in DOMAIN ActorClassPathToSchema[P].SubobjectData :
                ActorClassPathToSchema[P].SubobjectData[n].ClassPath = PathK

\* The steps that come before the save, in the order of both entry points.
StepsBeforeSave == <<"classes", "sublevels", "rpcendpoints", "ncds", "compiler">>

\* C25: in both entry points SaveSchemaDatabase is invoked only after the
\* class, sublevel, RPC endpoint and NCD generation have all run and
\* RunSchemaCompiler has returned true in the same run; when RunSchemaCompiler
\* returns false the run ends without a call of SaveSchemaDatabase.
C25_SaveOnlyAfterGenerationAndCompiler ==
    /\ (pc = "save" \/ "save" \in RangeOf(runSteps)) =>
          SubSeq(runSteps, 1, Len(StepsBeforeSave)) = StepsBeforeSave
    /\ "compilerfailed" \in RangeOf(runSteps) =>
          /\ pc = "idle" /\ runResult = "compiler"
          /\ "save" \notin RangeOf(runSteps)

\* A commandlet run and an editor run: the first went through every step and
\* saved, the second ended when the compiler failed and left the file alone.
C25_Witness ==
    /\ runs = 2 /\ runKind = "editor" /\ DatabaseHistory.Kind = "commandlet"
    /\ runSteps = <<"classes", "sublevels", "rpcendpoints", "ncds", "compilerfailed">>
    /\ runClasses # {} /\ DatabaseHistory.Classes # runClasses
    /\ pc = "idle"

\* The generator state the commandlet run in flight started its batches from:
\* the database is as the run found it until the save.
StateBeforeBatches ==
    LoadOrReset(StaticInitState, [bIsReadOnly |-> FALSE, bLoadable |-> bLoaded],
                [bDirectoryExists |-> FALSE, bDeleted |-> TRUE, bCreated |-> TRUE]).state

\* What one SpatialGDKGenerateSchemaForClasses call over all of the run's
\* classes gives from that state.
SingleCall ==
    [TypeInfos |-> TypeInfosOfCall(StateBeforeBatches.SchemaGeneratedClasses,
                                   SortFNameLexical(SortedKeys(runClasses))).TypeInfos,
     Outcome |-> SpatialGDKGenerateSchemaForClasses(StateBeforeBatches,
                                   SortFNameLexical(SortedKeys(runClasses)), <<>>)]

\* The batches of the run have given what the single call gives: processing
\* order, schema names, ComponentId assignments and counter.
BatchesAsSingleCall ==
    /\ TypeInfosOfCalls(runCalls, 1) = SingleCall.TypeInfos
    /\ ClassPathToSchemaName = SingleCall.Outcome.state.ClassPathToSchemaName
    /\ ActorClassPathToSchema = SingleCall.Outcome.state.ActorClassPathToSchema
    /\ SubobjectClassPathToSchema = SingleCall.Outcome.state.SubobjectClassPathToSchema
    /\ SchemaComponentTypeToComponents = SingleCall.Outcome.state.SchemaComponentTypeToComponents
    /\ NextAvailableComponentId = SingleCall.Outcome.state.NextAvailableComponentId

\* C26 as stated: batching has no effect: for every sorted set of referenced
\* classes the commandlet's consecutive batches give the same processing
\* order, schema names, ComponentId assignments and final
\* NextAvailableComponentId as one SpatialGDKGenerateSchemaForClasses call
\* over the whole set.
C26_BatchingHasNoEffect ==
    (runKind = "commandlet" /\ pc = "sublevels") => BatchesAsSingleCall

\* C27: if the compiled schema.descriptor cannot be fully read while saving,
\* the schema database is not saved: a database a run has persisted was
\* persisted with the hash of a descriptor that was read.
C27_UnreadDescriptorNotSaved ==
    DatabaseHistory.Kind \in {"editor", "commandlet"} => DatabaseHistory.bDescriptorRead

\* The scopes of a TypeInfo's identifiers: each replicated property group,
\* the handover properties, the subobjects.
ScopesOf(TypeInfo) ==
    [g \in 1..Len(ReplicatedPropertyGroups) |->
        RepScopeNames(TypeInfo, ReplicatedPropertyGroups[g])]
    \o <<HandoverScopeNames(TypeInfo), SubobjectScopeNames(TypeInfo)>>

\* Two entries of the scope share a sanitized name: the two names are equal
\* FStrings (equal but for the case of letters).
ScopeHasCollision(Names) ==
    \E i, j \in 1..Len(Names) : i < j /\ StrEqual(Names[i], Names[j])

\* A sanitized name is in two different scopes of the TypeInfo.
HasNameInTwoScopes(TypeInfo) ==
    \E m, n \in 1..Len(ScopesOf(TypeInfo)) :
       m < n /\ RangeOf(ScopesOf(TypeInfo)[m]) \cap RangeOf(ScopesOf(TypeInfo)[n]) # {}

\* C28: CheckIdentifierNameValidity reports a collision, by clearing the flag,
\* exactly when two entries of one scope of the class share a sanitized name
\* (each replicated property group is a scope, the handover properties are
\* one, the subobjects are one); a name in two scopes is not reported.  A
\* flag that is false stays false.  Stated for TypeInfos whose names are all
\* valid, where a collision is the only thing that clears the flag.
C28_CollisionIffSameScopeSharesName ==
    (/\ Call.Kind = "typeinfo" /\ Call.bDone
     /\ \A Names \in RangeOf(ScopesOf(Call.TypeInfo)) :
           \A i \in 1..Len(Names) : ~IsBadName(Names[i]))
    => (Call.bResult <=> /\ Call.bOutSuccess
                         /\ \A Names \in RangeOf(ScopesOf(Call.TypeInfo)) :
                               ~ScopeHasCollision(Names))

\* A class with one sanitized name in a replicated property group, in the
\* handover properties and in the subobjects has passed.
C28_Witness ==
    /\ Call.Kind = "typeinfo" /\ Call.bDone /\ Call.bOutSuccess /\ Call.bResult
    /\ Call.TypeInfo = PathCross
    /\ HasNameInTwoScopes(Call.TypeInfo)
    /\ RepScopeNames(Call.TypeInfo, "REP_MultiClient") = HandoverScopeNames(Call.TypeInfo)
    /\ HandoverScopeNames(Call.TypeInfo) = SubobjectScopeNames(Call.TypeInfo)
    /\ Len(SubobjectScopeNames(Call.TypeInfo)) = 1

\* The schema names that are taken when the validation comes to TypeInfos[i]:
\* the committed ones and those of the TypeInfos before it.
NamesTakenBefore(i) ==
    {Call.Committed[P] : P \in DOMAIN Call.Committed}
    \cup {Call.ClassPathToSchemaName[Call.TypeInfos[j]] : j \in 1..(i - 1)}

\* The name is the desired name when that is free, and otherwise the desired
\* name with the smallest suffix k >= 1 that gives a free name.  A name is
\* taken when SchemaNameToClassPath contains it, and the map's keys are
\* compared without regard to case.
IsTaken(Taken, Name) == \E n \in Taken : StrEqual(n, Name)

IsFirstFreeName(Name, Desired, Taken) ==
    IF ~IsTaken(Taken, Desired) THEN Name = Desired
    ELSE \E k \in 1..(Cardinality(Taken) + 1) :
            /\ Name = Desired \o IntToStr(k)
            /\ ~IsTaken(Taken, Name)
            /\ \A m \in 1..(k - 1) : IsTaken(Taken, Desired \o IntToStr(m))

\* C29: for a ClassPath without a committed name the suffix loop ends and
\* picks the sanitized class name if it is free, and otherwise that name with
\* the smallest positive suffix k for which the name is not in
\* SchemaNameToClassPath; afterwards the two tables are inverse on the new
\* entry and no two ClassPaths share a schema name.
C29_SuffixLoopPicksFirstFreeName ==
    (Call.Kind = "typeinfos" /\ Call.bDone) =>
       /\ \A i \in 1..Len(Call.TypeInfos) :
             LET P == Call.TypeInfos[i]
             IN /\ MapContains(Call.ClassPathToSchemaName, P)
                /\ P \notin DOMAIN Call.Committed =>
                      IsFirstFreeName(Call.ClassPathToSchemaName[P],
                                      UnrealNameToSchemaName(GetAssetName(P), TRUE),
                                      NamesTakenBefore(i))
                /\ MapContains(Call.SchemaNameToClassPath, Call.ClassPathToSchemaName[P])
                /\ Call.SchemaNameToClassPath[Call.ClassPathToSchemaName[P]] = P
       /\ \A P, Q \in DOMAIN Call.ClassPathToSchemaName :
             P # Q => ~StrEqual(Call.ClassPathToSchemaName[P], Call.ClassPathToSchemaName[Q])

\* F is committed to /b.F-; /a.F1 took F1, and /a.F, which wants F, went
\* through two rounds of the loop and got F2.
C29_Witness ==
    /\ Call.Kind = "typeinfos" /\ Call.bDone
    /\ Call.Committed = (PathB :> NameF)
    /\ Call.TypeInfos = <<PathC, PathB, PathA>>
    /\ Call.ClassPathToSchemaName[PathC] = NameF1
    /\ Call.ClassPathToSchemaName[PathA] = NameF2
    /\ Call.ClassPathToSchemaName[PathB] = NameF

\* The state generation starts from when nothing was loaded: the actor,
\* subobject, level and NCD tables and SchemaGeneratedClasses are empty, every
\* component category has an empty set of ids, and the counter is the
\* starting id.
IsCleanState(s) ==
    /\ s.ActorClassPathToSchema = EmptyMap
    /\ s.SubobjectClassPathToSchema = EmptyMap
    /\ s.LevelPathToComponentId = EmptyMap
    /\ s.NetCullDistanceToComponentId = <<>>
    /\ s.SchemaGeneratedClasses = {}
    /\ DOMAIN s.SchemaComponentTypeToComponents = SchemaComponentTypeSet
    /\ \A ty \in SchemaComponentTypeSet : s.SchemaComponentTypeToComponents[ty] = {}
    /\ s.NextAvailableComponentId = STARTING_GENERATED_COMPONENT_ID

\* C30: when LoadGeneratorStateFromSchemaDatabase returns false, whatever the
\* reason (read-only file, no file, asset that does not load, stale
\* database), and ResetSchemaGeneratorStateAndCleanupFolders follows, the
\* state is clean, from whatever state the load started and whatever the
\* clean-up of the folder meets (the folder is empty unless its directory
\* could not be deleted); the commandlet whose load failed is about to cook
\* with a clean state.
C30_FailedLoadThenResetIsClean ==
    /\ \A bIsReadOnly, bLoadable \in BOOLEAN, fs \in FolderConditionsOf(Cur) :
          LET r == LoadOrReset(Cur, [bIsReadOnly |-> bIsReadOnly, bLoadable |-> bLoadable], fs)
          IN ~r.bLoaded =>
                /\ IsCleanState(r.state)
                /\ (fs.bDirectoryExists => fs.bDeleted) => r.state.SchemaFiles = {}
    /\ (runKind = "commandlet" /\ pc = "cook" /\ ~bLoaded) => IsCleanState(Cur)

\* The second run is a commandlet whose database file, saved with records by
\* the first run and not stale, did not load: it is about to cook with a
\* clean state.
C30_Witness ==
    /\ runs = 2 /\ runKind = "commandlet" /\ pc = "cook" /\ ~bLoaded
    /\ Database.Valid /\ ~IsStale(Database)
    /\ DatabaseHistory.Kind \in {"editor", "commandlet"}
    /\ Cardinality(DOMAIN Database.ActorClassPathToSchema) > 1
    /\ DOMAIN Database.LevelPathToComponentId # {}
    /\ IsCleanState(Cur)

\* The tables, the category sets and the counter of two generator states are
\* the same.
SameTablesAndCounter(s1, s2) ==
    /\ s1.ActorClassPathToSchema = s2.ActorClassPathToSchema
    /\ s1.SubobjectClassPathToSchema = s2.SubobjectClassPathToSchema
    /\ s1.LevelPathToComponentId = s2.LevelPathToComponentId
    /\ s1.NetCullDistanceToComponentId = s2.NetCullDistanceToComponentId
    /\ s1.SchemaComponentTypeToComponents = s2.SchemaComponentTypeToComponents
    /\ s1.NextAvailableComponentId = s2.NextAvailableComponentId

\* After a save that succeeded, a load of the file, in a new process or in
\* this one, succeeds and gives the tables, category sets and counter the
\* generator has.
C31_LoadRestoresSavedState ==
    (pc = "idle" /\ runResult = "saved" /\ Database.Valid) =>
       \A s \in {StaticInitState, Cur} :
          LET l == LoadGeneratorStateFromSchemaDatabase(s, Database, FALSE, TRUE)
          IN l.result /\ SameTablesAndCounter(l.state, Cur)

\* The step that calls SaveSchemaDatabase leaves the tables, the category
\* sets and the counter as they are.
C31_SaveChangesNoAssignment ==
    (pc = "save" /\ pc' = "idle") =>
       /\ ActorClassPathToSchema' = ActorClassPathToSchema
       /\ SubobjectClassPathToSchema' = SubobjectClassPathToSchema
       /\ LevelPathToComponentId' = LevelPathToComponentId
       /\ NetCullDistanceToComponentId' = NetCullDistanceToComponentId
       /\ SchemaComponentTypeToComponents' = SchemaComponentTypeToComponents
       /\ NextAvailableComponentId' = NextAvailableComponentId

\* C31: saving a database and loading it again restores the generator
\* state: after SaveSchemaDatabase succeeds, the load of the saved file gives
\* the same actor, subobject, level and NCD tables, the same category sets
\* and the same NextAvailableComponentId as before the save, and the save
\* itself changes no id assignment and not the counter.
C31_SaveThenLoadRestoresState ==
    []C31_LoadRestoresSavedState /\ [][C31_SaveChangesNoAssignment]_vars

\* A run that loaded a database has saved one with several actors, a
\* subobject class, levels and a net-cull distance.
C31_Witness ==
    /\ pc = "idle" /\ runResult = "saved" /\ Database.Valid /\ bLoaded /\ runs = 2
    /\ Cardinality(DOMAIN ActorClassPathToSchema) > 1
    /\ DOMAIN SubobjectClassPathToSchema # {}
    /\ DOMAIN LevelPathToComponentId # {}
    /\ NetCullDistanceToComponentId # <<>>
    /\ issued \ DatabaseHistory.Issued = {}
    /\ NextAvailableComponentId > STARTING_GENERATED_COMPONENT_ID
    /\ Database.NextAvailableComponentId = NextAvailableComponentId

\* The step is a SpatialGDKGenerateSchemaForClasses call that returned false.
FailedClassesCall ==
    /\ Len(runCalls') = Len(runCalls) + 1
    /\ ~runCalls'[Len(runCalls')].bResult

\* C32: a SpatialGDKGenerateSchemaForClasses call that fails name validation
\* mints nothing: it returns false with NextAvailableComponentId, the actor
\* and subobject record tables, the level table and the NCD table unchanged
\* (and the category sets and the schema files with them); only
\* SchemaGeneratedClasses and the name tables are modified.
C32_FailedCallMintsNothing ==
    [][FailedClassesCall =>
          /\ NextAvailableComponentId' = NextAvailableComponentId
          /\ ActorClassPathToSchema' = ActorClassPathToSchema
          /\ SubobjectClassPathToSchema' = SubobjectClassPathToSchema
          /\ LevelPathToComponentId' = LevelPathToComponentId
          /\ NetCullDistanceToComponentId' = NetCullDistanceToComponentId
          /\ SchemaComponentTypeToComponents' = SchemaComponentTypeToComponents
          /\ SchemaFiles' = SchemaFiles /\ SublevelsSchema' = SublevelsSchema]_vars

\* The second batch of a commandlet run has failed after the first one gave
\* ids to its classes: the tables are those of the first batch, and the class
\* with the colliding properties is in SchemaGeneratedClasses and has a name.
C32_Witness ==
    /\ Len(runCalls) = 2 /\ runCalls[1].bResult /\ ~runCalls[2].bResult
    /\ PathX \in RangeOf(runCalls[2].TypeInfos)
    /\ PathX \in SchemaGeneratedClasses
    /\ MapContains(ClassPathToSchemaName, PathX)
    /\ DOMAIN ActorClassPathToSchema = RangeOf(runCalls[1].TypeInfos) \ {PathK}
    /\ Cardinality(DOMAIN ActorClassPathToSchema) = BatchSize
    /\ NextAvailableComponentId > STARTING_GENERATED_COMPONENT_ID

\* The entries of a map, as pairs.
MapPairs(m) == {<<k, m[k]>> : k \in DOMAIN m}

\* The (ClassPath, GeneratedSchemaName) pairs of the actor and subobject
\* records whose GeneratedSchemaName is not empty.
NamedRecords(s) ==
    {<<c, s.ActorClassPathToSchema[c].GeneratedSchemaName>> :
        c \in {d \in DOMAIN s.ActorClassPathToSchema :
                  s.ActorClassPathToSchema[d].GeneratedSchemaName # <<>>}}
    \cup
    {<<c, s.SubobjectClassPathToSchema[c].GeneratedSchemaName>> :
        c \in {d \in DOMAIN s.SubobjectClassPathToSchema :
                  s.SubobjectClassPathToSchema[d].GeneratedSchemaName # <<>>}}

\* The name tables a SpatialGDKGenerateSchemaForClasses call that starts in
\* state s hands to ValidateIdentifierNames.
NamesAtValidationStart(s) == ResetUsedNames(s)

\* The states that differ from s in one record, whose GeneratedSchemaName is
\* empty, as in a database file that holds a record without a name.
WithOneNameEmpty(s) ==
    {[s EXCEPT !.ActorClassPathToSchema[P].GeneratedSchemaName = <<>>] :
        P \in DOMAIN s.ActorClassPathToSchema}
    \cup
    {[s EXCEPT !.SubobjectClassPathToSchema[P].GeneratedSchemaName = <<>>] :
        P \in DOMAIN s.SubobjectClassPathToSchema}

\* C33: names assigned by a failed or earlier validation never leak into a
\* later call: whenever a SpatialGDKGenerateSchemaForClasses call can start,
\* the name tables ValidateIdentifierNames starts with hold exactly the
\* (ClassPath, GeneratedSchemaName) entries of the actor and subobject
\* records with a non-empty name, whatever calls preceded it, and also when
\* one of the records has an empty name.
C33_NamesRebuiltFromRecords ==
    pc \in {"batch", "editor"} =>
       \A s \in {Cur} \cup WithOneNameEmpty(Cur) :
          LET n == NamesAtValidationStart(s)
          IN /\ MapPairs(n.ClassPathToSchemaName) = NamedRecords(s)
             /\ MapPairs(n.SchemaNameToClassPath) = {<<p[2], p[1]>> : p \in NamedRecords(s)}

\* A batch is about to start after a batch that failed: the failed batch left
\* the name of a class that has no record, and the records of the batch before
\* it have names.
C33_Witness ==
    /\ pc = "batch" /\ Len(runCalls) = 2
    /\ runCalls[1].bResult /\ ~runCalls[2].bResult
    /\ NamedRecords(Cur) # {}
    /\ \E c \in DOMAIN ClassPathToSchemaName :
          c \notin DOMAIN ActorClassPathToSchema \cup DOMAIN SubobjectClassPathToSchema
    /\ MapPairs(NamesAtValidationStart(Cur).ClassPathToSchemaName)
          # MapPairs(ClassPathToSchemaName)
    /\ KeyOrder.ActorClassPathToSchema # SortByPathName(KeyOrder.ActorClassPathToSchema)
    /\ \E s \in WithOneNameEmpty(Cur) :
          DOMAIN NamesAtValidationStart(s).ClassPathToSchemaName
             # DOMAIN NamesAtValidationStart(Cur).ClassPathToSchemaName

\* The component ids the actor, subobject, level and NCD tables store.
StoredIds(s) == RangeOf(TableIds(s))

\* C34: in every state reachable from a reset or from a loaded database,
\* between generation phases NextAvailableComponentId is strictly greater
\* than every ComponentId stored in the actor, subobject, level and
\* net-cull-distance tables, so the next minted id cannot collide with a
\* stored one.
C34_CounterAboveEveryStoredId ==
    \A id \in StoredIds(Cur) : id < NextAvailableComponentId

\* A run that loaded a database has passed every generation phase: each of
\* the four tables stores ids, ids of the loaded database among them, and the
\* highest stored id is the one minted last.
C34_Witness ==
    /\ pc = "compile" /\ bLoaded /\ runs = 2
    /\ DOMAIN ActorClassPathToSchema # {} /\ DOMAIN SubobjectClassPathToSchema # {}
    /\ DOMAIN LevelPathToComponentId # {} /\ Len(NetCullDistanceToComponentId) > 0
    /\ StoredIds(Cur) \cap DatabaseHistory.Issued # {}
    /\ StoredIds(Cur) \ DatabaseHistory.Issued # {}
    /\ NextAvailableComponentId - 1 \in StoredIds(Cur)

\* C35 (as stated): on every path by which UCookAndGenerateSchemaCommandlet::Main
\* returns, the listener registered by StartListening has been unregistered
\* by StopListening before the return.
C35_ListenerUnregisteredAtEveryReturn ==
    (runKind = "commandlet" /\ pc = "idle") => ~bListening

\* The step is the commandlet's return for a read-only database file.
ReadOnlyReturn ==
    /\ pc = "idle" /\ runs' = runs + 1
    /\ runKind' = "commandlet" /\ runResult' = "readonly"

\* C36: when the schema database file is read-only the commandlet stops
\* before it has any effect: it returns with the schema folders and the
\* database file as they were, the generator state neither loaded nor reset
\* (the values the process started with), nothing cooked, no class call made,
\* and no generation, compiler or save step run.
C36_ReadOnlyReturnHasNoEffect ==
    [][ReadOnlyReturn =>
          /\ pc' = "idle"
          /\ SchemaFiles' = SchemaFiles /\ SublevelsSchema' = SublevelsSchema
          /\ Database' = Database /\ DatabaseHistory' = DatabaseHistory
          /\ Cur' = [StaticInitState EXCEPT !.SchemaFiles = SchemaFiles,
                                            !.SublevelsSchema = SublevelsSchema]
          /\ ~bLoaded'
          /\ PendingClasses' = <<>> /\ runClasses' = {}
          /\ runCalls' = <<>> /\ runSteps' = <<>>]_vars

\* A second run, a commandlet, has returned for a read-only database: the
\* schema files the first run wrote are still there, and the records of the
\* database, which a load would have accepted, are not in memory.
C36_Witness ==
    /\ pc = "idle" /\ runKind = "commandlet" /\ runResult = "readonly" /\ runs = 2
    /\ SchemaFiles # {} /\ Len(SublevelsSchema) > 0
    /\ Database.Valid /\ ~IsStale(Database)
    /\ DOMAIN Database.ActorClassPathToSchema # {}
    /\ DOMAIN ActorClassPathToSchema = {}
    /\ NextAvailableComponentId = STARTING_GENERATED_COMPONENT_ID
    /\ Database.NextAvailableComponentId > STARTING_GENERATED_COMPONENT_ID

\* The classes of the sorted ReferencedClasses that reload.
Reloaded == Call.Loadable \cap RangeOf(Call.ReferencedClasses)

\* The calls a class was passed to.
CallsWith(c) == {k \in 1..Len(Call.Calls) : c \in Call.Calls[k]}

\* C37: the commandlet's batching loses and duplicates nothing: once the
\* final call is made, every referenced class that reloaded was passed to
\* exactly one SpatialGDKGenerateSchemaForClasses call (and no other class to
\* any), every call received at most BatchSize classes, and the final call
\* received the classes left over after the loop.
C37_BatchingLosesAndDuplicatesNothing ==
    (Call.Kind = "batching" /\ Call.bDone) =>
       /\ \A c \in Reloaded : Cardinality(CallsWith(c)) = 1
       /\ \A k \in 1..Len(Call.Calls) :
             Call.Calls[k] \subseteq Reloaded /\ Cardinality(Call.Calls[k]) <= BatchSize
       /\ Len(Call.Calls) >= 1
       /\ Call.Calls[Len(Call.Calls)]
             = Reloaded \ UNION {Call.Calls[k] : k \in 1..(Len(Call.Calls) - 1)}

\* The loop met a class that did not reload before it filled its first
\* batch, and the final call received a class.
C37_Witness ==
    /\ Call.Kind = "batching" /\ Call.bDone
    /\ Len(Call.Calls) = 2
    /\ Cardinality(Call.Calls[1]) = BatchSize /\ Call.Calls[2] # {}
    /\ \E j, k \in 1..Len(Call.ReferencedClasses) :
          /\ j < k
          /\ Call.ReferencedClasses[j] \notin Call.Loadable
          /\ Call.ReferencedClasses[k] \in Call.Calls[1]

=============================================================================
